---- MODULE Spec2Model ----
(***************************************************************************)
(* SingSync lyrics-resolution pipeline (server/src/services/lyrics.ts).    *)
(*                                                                         *)
(* Strings are sequences of one-character tokens.  The alphabet stands for *)
(* the Unicode classes the code tells apart:                               *)
(*   "a" "b" "A" "B"  Latin letters        "h"  a Hangul syllable          *)
(*   "i" Hiragana  "k" Katakana  "x" Han   "c"  a Cyrillic letter          *)
(*   "1" a digit   "!" punctuation   "#" a symbol such as a music note     *)
(*   " " "\n" whitespace               "<t>" an HTML/VTT tag               *)
(* Times are integers in hundredths of a second; NaN is a sentinel.        *)
(***************************************************************************)
EXTENDS Integers, Sequences, FiniteSets, Bags, TLC

\* ---------------------------------------------------------------- bounds
MaxCalls == 2
\* longest answer of the video search API
MaxItems == 3

\* ------------------------------------------------------ program constants
FingerprintLimit == 2400
TopLimit == 3
CatalogLimit == 6
AlignPlainLimit == 2
MinAlignLines == 4
VttDedupGap == 80
LrcDedupGap == 80
WhisperDedupGap == 60
AlignDedupGap == 50

NaN == 0 - 999999
UNDEF == <<"<undefined>">>
VideoId == "vid"

\* ------------------------------------------------------------- characters
LatinCh == {"a", "b"} \cup {"A", "B"}
HangulCh == {"h"}
HiraganaCh == {"i"}
KatakanaCh == {"k"}
HanCh == {"x"}
CyrillicCh == {"c"}
DigitCh == {"1"}
WsCh == {" ", "\n"}
LetterCh == LatinCh \cup HangulCh \cup HiraganaCh \cup KatakanaCh \cup HanCh \cup CyrillicCh

Min(a, b) == IF a < b THEN a ELSE b
Max(a, b) == IF a > b THEN a ELSE b
Abs(a) == IF a < 0 THEN 0 - a ELSE a
OrEmpty(p) == IF p = UNDEF THEN <<>> ELSE p

\* an array as a value that is computed once, whatever is read from it later
Arr(f) == f \o <<>>

Count(text, S) == Cardinality({i \in 1..Len(text) : text[i] \in S})

RECURSIVE Flatten(_, _)
\* Array.prototype.join over token sequences, halving the array
Flatten(seqs, sep) ==
  IF seqs = <<>> THEN <<>>
  ELSE IF Len(seqs) = 1 THEN seqs[1]
  ELSE LET half == Len(seqs) \div 2
       IN Flatten(SubSeq(seqs, 1, half), sep) \o sep
            \o Flatten(SubSeq(seqs, half + 1, Len(seqs)), sep)

RECURSIVE DropLeadingWs(_)
DropLeadingWs(s) ==
  IF s # <<>> /\ Head(s) \in WsCh THEN DropLeadingWs(Tail(s)) ELSE s

RECURSIVE DropTrailingWs(_)
DropTrailingWs(s) ==
  IF s # <<>> /\ s[Len(s)] \in WsCh THEN DropTrailingWs(SubSeq(s, 1, Len(s) - 1)) ELSE s

\* String.prototype.trim
Trim(s) == DropTrailingWs(DropLeadingWs(s))

\* replace(/\s+/g, " "): the first character of every whitespace run survives as a space
CollapseWs(s) ==
  LET tagged == [i \in 1..Len(s) |->
                   [ch |-> IF s[i] \in WsCh THEN " " ELSE s[i],
                    keep |-> s[i] \notin WsCh \/ i = 1 \/ s[i - 1] \notin WsCh]]
      kept == SelectSeq(tagged, LAMBDA x : x.keep)
  IN Arr([i \in 1..Len(kept) |-> kept[i].ch])


\* decodeHtmlEntities + replace(/<[^>]*>/g, " ") + replace(/\s+/g, " ") + trim
cleanCaptionText(input) ==
  Trim(CollapseWs(Arr([i \in 1..Len(input) |-> IF input[i] = "<t>" THEN " " ELSE input[i]])))

RECURSIVE SplitNl(_, _)
\* String.prototype.split("\n"); cur is the piece being accumulated
SplitNl(s, cur) ==
  IF s = <<>> THEN <<cur>>
  ELSE IF Head(s) = "\n" THEN <<cur>> \o SplitNl(Tail(s), <<>>)
  ELSE SplitNl(Tail(s), Append(cur, Head(s)))

\* replace(/\n{3,}/g, "\n\n"): the third and later newlines of a run are dropped
SqueezeNl(s) ==
  LET tagged == [i \in 1..Len(s) |->
                   [ch |-> s[i],
                    keep |-> ~(i >= 3 /\ s[i] = "\n" /\ s[i - 1] = "\n" /\ s[i - 2] = "\n")]]
      kept == SelectSeq(tagged, LAMBDA x : x.keep)
  IN Arr([i \in 1..Len(kept) |-> kept[i].ch])

normalizePlainLyrics(input) == Trim(SqueezeNl(input))

\* a line that is exactly one bracketed annotation, /^\[[^\]]+\]$/
IsBracketOnly(line) ==
  /\ Len(line) >= 3
  /\ line[1] = "["
  /\ line[Len(line)] = "]"
  /\ \A i \in 2..(Len(line) - 1) : line[i] # "]"

splitPlainLyrics(input) ==
  LET pieces == SplitNl(normalizePlainLyrics(input), <<>>)
      cleaned == Arr([i \in 1..Len(pieces) |-> cleanCaptionText(pieces[i])])
  IN SelectSeq(cleaned, LAMBDA line : Len(line) > 0 /\ ~IsBracketOnly(line))

\* ------------------------------------------------------ script classifier
scriptCharCounts(input) ==
  [latin |-> Count(input, LatinCh), hangul |-> Count(input, HangulCh),
   hiragana |-> Count(input, HiraganaCh), katakana |-> Count(input, KatakanaCh),
   han |-> Count(input, HanCh), cyrillic |-> Count(input, CyrillicCh)]

detectScriptTwoKinds(text) ==
  LET c == scriptCharCounts(text)
      japanese == c.hiragana + c.katakana + c.han
      top == Max(Max(c.latin, c.hangul), Max(japanese, c.cyrillic))
      kinds == Cardinality({k \in {"l", "h", "j", "c"} :
                 \/ k = "l" /\ c.latin > 0
                 \/ k = "h" /\ c.hangul > 0
                 \/ k = "j" /\ japanese > 0
                 \/ k = "c" /\ c.cyrillic > 0})
  IN IF top <= 1 THEN "unknown"
     ELSE IF kinds >= 2 THEN "mixed"
     ELSE IF top = c.hangul THEN "korean"
     ELSE IF top = japanese THEN "japanese"
     ELSE IF top = c.cyrillic THEN "cyrillic"
     ELSE "latin"

detectScript(text) ==
  LET c == scriptCharCounts(text)
      japanese == c.hiragana + c.katakana + c.han
      top == Max(Max(c.latin, c.hangul), Max(japanese, c.cyrillic))
      kinds == Cardinality({k \in {"l", "h", "j", "c"} :
                 \/ k = "l" /\ c.latin > 0
                 \/ k = "h" /\ c.hangul > 0
                 \/ k = "j" /\ japanese > 0
                 \/ k = "c" /\ c.cyrillic > 0})
  IN IF top <= 1 THEN "unknown"
     ELSE IF kinds >= 3 THEN "mixed"
     ELSE IF top = c.hangul THEN "korean"
     ELSE IF top = japanese THEN "japanese"
     ELSE IF top = c.cyrillic THEN "cyrillic"
     ELSE "latin"

detectExpectedScriptFromMeta(title, channelTitle) ==
  LET titleScript == detectScript(title)
  IN IF titleScript # "unknown" /\ titleScript # "mixed" THEN titleScript
     ELSE detectScript(title \o <<" ">> \o channelTitle)

isScriptCompatibleStrict(text, expected) ==
  LET c == scriptCharCounts(text)
      japanese == c.hiragana + c.katakana + c.han
      total == c.latin + c.hangul + japanese + c.cyrillic
  IN IF expected = "unknown" \/ expected = "mixed" THEN TRUE
     ELSE IF total = 0 THEN FALSE
     ELSE IF expected = "korean" THEN c.cyrillic = 0 /\ (c.hangul >= 2 \/ c.latin >= 2)
     ELSE IF expected = "japanese" THEN c.cyrillic = 0 /\ (japanese >= 2 \/ c.latin >= 2)
     ELSE IF expected = "cyrillic" THEN c.cyrillic >= 2
     ELSE /\ c.latin >= 2
          /\ (c.hangul + japanese + c.cyrillic) < Max(2, (c.latin * 6) \div 10)

isScriptCompatible(text, expected) ==
  LET c == scriptCharCounts(text)
      japanese == c.hiragana + c.katakana + c.han
      total == c.latin + c.hangul + japanese + c.cyrillic
  IN IF expected = "unknown" \/ expected = "mixed" THEN TRUE
     ELSE IF total = 0 THEN FALSE
     ELSE IF expected = "korean" THEN c.cyrillic = 0 /\ (c.hangul >= 2 \/ c.latin >= 2)
     ELSE IF expected = "japanese" THEN c.cyrillic = 0 /\ (japanese >= 2 \/ c.latin >= 2)
     ELSE IF expected = "cyrillic" THEN c.cyrillic >= 2
     ELSE /\ c.latin >= 2
          /\ (c.hangul + japanese + c.cyrillic) <= Max(2, (c.latin * 6) \div 10)

LinesText(lines, sep) == Flatten(Arr([i \in 1..Len(lines) |-> lines[i].text]), sep)

\* `${timed} ${plain}`.trim() as used by the cache check, the scorer and the catalog filter
AllText(lines, plainLyrics) == Trim(LinesText(lines, <<" ">>) \o <<" ">> \o OrEmpty(plainLyrics))

hasCompatibleLyricsPayloadNoShortcut(payload, expectedScript) ==
  isScriptCompatible(AllText(payload.lines, payload.plainLyrics), expectedScript)

hasCompatibleLyricsPayload(payload, expectedScript) ==
  LET allText == AllText(payload.lines, payload.plainLyrics)
  IN IF allText = <<>> THEN TRUE ELSE isScriptCompatible(allText, expectedScript)

\* ------------------------------------------------- scoring, deduplication
ToLower(ch) == IF ch = "A" THEN "a" ELSE IF ch = "B" THEN "b" ELSE ch

\* toLowerCase + replace(/[^\p{L}\p{N}\s]/gu, " ") + replace(/\s+/g, " ") + trim
NormalizeForFingerprint(s) ==
  Trim(CollapseWs(Arr([i \in 1..Len(s) |->
    IF ToLower(s[i]) \in LetterCh \cup DigitCh \cup WsCh THEN ToLower(s[i]) ELSE " "])))

Slice(s, n) == SubSeq(s, 1, Min(Len(s), n))

normalizedLyricsFingerprint(mode, lines, plainLyrics) ==
  IF mode = "timed"
  THEN Slice(NormalizeForFingerprint(LinesText(lines, <<"\n">>)), FingerprintLimit)
  ELSE Slice(NormalizeForFingerprint(plainLyrics), FingerprintLimit)

scoreLyricsCandidateCaptionsLow(candidate, expectedScript) ==
  LET lineCount == Len(candidate.lines)
      plainLen == Len(OrEmpty(candidate.plainLyrics))
      base == IF candidate.source = "captions" THEN 69
              ELSE IF candidate.source = "catalog"
                   THEN (IF candidate.mode = "timed" THEN 90 ELSE 84)
              ELSE IF candidate.source = "catalog_aligned" THEN 82
              ELSE IF candidate.source = "stt" THEN 48
              ELSE 0
      sync == IF candidate.syncMethod = "native" THEN 7
              ELSE IF candidate.syncMethod = "ai" THEN 2 ELSE 0
      density == IF candidate.mode = "timed" THEN Min(16, lineCount \div 6)
                 ELSE Min(10, plainLen \div 120)
      allText == AllText(candidate.lines, candidate.plainLyrics)
      bonus == IF allText # <<>> /\ isScriptCompatible(allText, expectedScript) THEN 8 ELSE 0
  IN base + sync + density + bonus

scoreLyricsCandidateAlignedFirst(candidate, expectedScript) ==
  LET lineCount == Len(candidate.lines)
      plainLen == Len(OrEmpty(candidate.plainLyrics))
      base == IF candidate.source = "captions" THEN 96
              ELSE IF candidate.source = "catalog"
                   THEN (IF candidate.mode = "timed" THEN 90 ELSE 84)
              ELSE IF candidate.source = "catalog_aligned" THEN 92
              ELSE IF candidate.source = "stt" THEN 48
              ELSE 0
      sync == IF candidate.syncMethod = "native" THEN 7
              ELSE IF candidate.syncMethod = "ai" THEN 2 ELSE 0
      density == IF candidate.mode = "timed" THEN Min(16, lineCount \div 6)
                 ELSE Min(10, plainLen \div 120)
      allText == AllText(candidate.lines, candidate.plainLyrics)
      bonus == IF allText # <<>> /\ isScriptCompatible(allText, expectedScript) THEN 8 ELSE 0
  IN base + sync + density + bonus

scoreLyricsCandidate(candidate, expectedScript) ==
  LET lineCount == Len(candidate.lines)
      plainLen == Len(OrEmpty(candidate.plainLyrics))
      base == IF candidate.source = "captions" THEN 96
              ELSE IF candidate.source = "catalog"
                   THEN (IF candidate.mode = "timed" THEN 90 ELSE 84)
              ELSE IF candidate.source = "catalog_aligned" THEN 82
              ELSE IF candidate.source = "stt" THEN 48
              ELSE 0
      sync == IF candidate.syncMethod = "native" THEN 7
              ELSE IF candidate.syncMethod = "ai" THEN 2 ELSE 0
      density == IF candidate.mode = "timed" THEN Min(16, lineCount \div 6)
                 ELSE Min(10, plainLen \div 120)
      allText == AllText(candidate.lines, candidate.plainLyrics)
      bonus == IF allText # <<>> /\ isScriptCompatible(allText, expectedScript) THEN 8 ELSE 0
  IN base + sync + density + bonus

RECURSIVE PickLoopNoSeen(_, _, _, _)
PickLoopNoSeen(candidates, seen, out, limit) ==
  IF candidates = <<>> THEN out
  ELSE LET c == Head(candidates)
           fp == normalizedLyricsFingerprint(c.mode, c.lines, OrEmpty(c.plainLyrics))
       IN IF fp = <<>> THEN PickLoopNoSeen(Tail(candidates), seen, out, limit)
          ELSE IF Len(out) + 1 >= limit THEN Append(out, c)
          ELSE PickLoopNoSeen(Tail(candidates), seen, Append(out, c), limit)

RECURSIVE PickLoop(_, _, _, _)
\* the for-loop of pickTopCandidates: seen fingerprints, output so far
PickLoop(candidates, seen, out, limit) ==
  IF candidates = <<>> THEN out
  ELSE LET c == Head(candidates)
           fp == normalizedLyricsFingerprint(c.mode, c.lines, OrEmpty(c.plainLyrics))
       IN IF fp = <<>> \/ fp \in seen THEN PickLoop(Tail(candidates), seen, out, limit)
          ELSE IF Len(out) + 1 >= limit THEN Append(out, c)
          ELSE PickLoop(Tail(candidates), seen \cup {fp}, Append(out, c), limit)

pickTopCandidatesUnlimited(candidates, limit) ==
  IF Len(candidates) <= 1 THEN candidates
  ELSE PickLoop(candidates, {}, <<>>, Len(candidates) + 1)

pickTopCandidates(candidates, limit) ==
  IF Len(candidates) <= 1 THEN Slice(candidates, limit)
  ELSE PickLoop(candidates, {}, <<>>, limit)

\* the indices 1..n ordered by ascending key, equal keys in index order
SortIdx(keys, n) ==
  LET rank == Arr([i \in 1..n |->
                 Cardinality({j \in 1..n : keys[j] < keys[i] \/ (keys[j] = keys[i] /\ j < i)}) + 1])
  IN Arr([k \in 1..n |-> CHOOSE i \in 1..n : rank[i] = k])

\* Array.prototype.sort((a, b) => key(a) - key(b)), stable since ES2019
SortByKeys(s, keys) ==
  IF \A i \in 1..(Len(s) - 1) : keys[i] <= keys[i + 1] THEN s
  ELSE LET p == SortIdx(keys, Len(s)) IN Arr([i \in 1..Len(s) |-> s[p[i]]])

SortByScoreDescNoop(s) == s

SortByScoreDesc(s) == SortByKeys(s, Arr([i \in 1..Len(s) |-> 0 - s[i].score]))

SortByTime(s) == SortByKeys(s, Arr([i \in 1..Len(s) |-> s[i].t]))

RECURSIVE DedupAdjacent(_, _, _)
\* the de-duplication loop shared by the parsers, run over the two halves of
\* items in turn: an item is kept unless it repeats the text of the item kept
\* last within gap
DedupAdjacent(items, out, gap) ==
  IF Len(items) = 0 THEN out
  ELSE IF Len(items) = 1
  THEN LET item == items[1]
           keep == \/ out = <<>>
                   \/ out[Len(out)].text # item.text
                   \/ Abs(out[Len(out)].t - item.t) > gap
       IN IF keep THEN Append(out, item) ELSE out
  ELSE LET half == Len(items) \div 2
           left == DedupAdjacent(SubSeq(items, 1, half), out, gap)
       IN IF Len(left) >= 0
          THEN DedupAdjacent(SubSeq(items, half + 1, Len(items)), left, gap)
          ELSE left

\* ---------------------------------------------------------------- parsers
IsFinite(x) == x # NaN

\* A VTT document is modelled by its cue blocks [start, text]: start is the
\* value parseVttTime gives for the cue's first timestamp token, text the joined
\* cue payload lines.  An unparsable document has no cue blocks.
parseVtt(content) ==
  LET cleaned == Arr([i \in 1..Len(content) |->
                    [t |-> content[i].start, text |-> cleanCaptionText(content[i].text)]])
      out == SelectSeq(cleaned, LAMBDA cue : IsFinite(cue.t) /\ cue.text # <<>>)
  IN SortByTime(DedupAdjacent(out, <<>>, VttDedupGap))

\* An LRC document is modelled by its lines [tags, text]: tags are the values
\* parseLrcTimestamp gives for the bracketed groups of the line.
LrcExpand(content) ==
  LET perLine == [k \in 1..Len(content) |->
        LET text == cleanCaptionText(content[k].text)
            tags == SelectSeq(content[k].tags, IsFinite)
        IN IF Len(content[k].tags) = 0 \/ text = <<>> THEN <<>>
           ELSE [i \in 1..Len(tags) |-> [t |-> tags[i], text |-> text]]]
  IN Flatten(Arr(perLine), <<>>)

parseLrc(content) == DedupAdjacent(SortByTime(LrcExpand(content)), <<>>, LrcDedupGap)

\* ---- LRC text, character by character
DecimalDigits == <<"0", "1", "2", "3", "4", "5", "6", "7", "8", "9">>
IsDigits(s) == s # <<>> /\ \A i \in 1..Len(s) : \E d \in 1..10 : DecimalDigits[d] = s[i]
RECURSIVE NumberOf(_)
\* Number(s) of a string of decimal digits
NumberOf(s) ==
  IF s = <<>> THEN 0
  ELSE 10 * NumberOf(SubSeq(s, 1, Len(s) - 1))
         + ((CHOOSE d \in 1..10 : DecimalDigits[d] = s[Len(s)]) - 1)
\* the positions of ch in s
PositionsOf(s, ch) == {i \in 1..Len(s) : s[i] = ch}

\* mm * 60 + ss + ff / 100 in hundredths, NaN when the group is not digits ":"
\* digits with an optional "." digits
parseLrcTimestampTenths(raw) ==
  LET colons == PositionsOf(raw, ":")
      c == CHOOSE i \in colons : TRUE
      rest == SubSeq(raw, c + 1, Len(raw))
      dots == PositionsOf(rest, ".")
      d == CHOOSE i \in dots : TRUE
      ss == IF dots = {} THEN rest ELSE SubSeq(rest, 1, d - 1)
      ff == IF dots = {} THEN <<>> ELSE SubSeq(rest, d + 1, Len(rest))
  IN IF Cardinality(colons) # 1 \/ Cardinality(dots) > 1 THEN NaN
     ELSE IF ~IsDigits(SubSeq(raw, 1, c - 1)) \/ ~IsDigits(ss) THEN NaN
     ELSE IF dots # {} /\ ~IsDigits(ff) THEN NaN
     ELSE NumberOf(SubSeq(raw, 1, c - 1)) * 6000 + NumberOf(ss) * 100 + NumberOf(ff) * 10

parseLrcTimestamp(raw) ==
  LET colons == PositionsOf(raw, ":")
      c == CHOOSE i \in colons : TRUE
      rest == SubSeq(raw, c + 1, Len(raw))
      dots == PositionsOf(rest, ".")
      d == CHOOSE i \in dots : TRUE
      ss == IF dots = {} THEN rest ELSE SubSeq(rest, 1, d - 1)
      ff == IF dots = {} THEN <<>> ELSE SubSeq(rest, d + 1, Len(rest))
  IN IF Cardinality(colons) # 1 \/ Cardinality(dots) > 1 THEN NaN
     ELSE IF ~IsDigits(SubSeq(raw, 1, c - 1)) \/ ~IsDigits(ss) THEN NaN
     ELSE IF dots # {} /\ ~IsDigits(ff) THEN NaN
     ELSE NumberOf(SubSeq(raw, 1, c - 1)) * 6000 + NumberOf(ss) * 100 + NumberOf(ff)

RECURSIVE ScanGroups(_, _, _, _)
\* line.matchAll(/\[([^\]]+)\]/g) and line.replace(/\[[^\]]+\]/g, " ") in one
\* pass from position i: the groups found so far and the text with each group
\* replaced by a space
ScanGroups(line, i, groups, text) ==
  IF i > Len(line) THEN [groups |-> groups, text |-> text]
  ELSE LET closing == {j \in (i + 1)..Len(line) : line[j] = "]"}
           j == CHOOSE k \in closing : \A m \in closing : k <= m
       IN IF line[i] = "[" /\ closing # {} /\ j > i + 1
          THEN ScanGroups(line, j + 1, Append(groups, SubSeq(line, i + 1, j - 1)),
                          Append(text, " "))
          ELSE ScanGroups(line, i + 1, groups, Append(text, line[i]))

\* the lines of an LRC text as LrcExpand takes them
LrcDocument(content) ==
  LET pieces == SplitNl(content, <<>>)
      scanned == Arr([k \in 1..Len(pieces) |-> ScanGroups(pieces[k], 1, <<>>, <<>>)])
  IN Arr([k \in 1..Len(pieces) |->
            [tags |-> Arr([g \in 1..Len(scanned[k].groups) |->
                             parseLrcTimestamp(scanned[k].groups[g])]),
             text |-> scanned[k].text]])

\* The transcription output is modelled as [ok, segments]: ok is false when
\* JSON.parse throws; segments carry Number(start) and String(text || "").
parseWhisperSegments(raw) ==
  IF ~raw.ok THEN <<>>
  ELSE LET mapped == Arr([i \in 1..Len(raw.segments) |->
                        [start |-> raw.segments[i].start,
                         text |-> cleanCaptionText(raw.segments[i].text)]])
           kept == SelectSeq(mapped, LAMBDA sg : IsFinite(sg.start) /\ sg.start >= 0 /\ Len(sg.text) > 0)
       IN SortByKeys(kept, Arr([i \in 1..Len(kept) |-> kept[i].start]))

parseWhisperJson(raw) ==
  LET segments == parseWhisperSegments(raw)
      items == Arr([i \in 1..Len(segments) |-> [t |-> segments[i].start, text |-> segments[i].text]])
  IN DedupAdjacent(items, <<>>, WhisperDedupGap)

\* Math.round(num / den) for num >= 0, den > 0
RoundDiv(num, den) == (2 * num + den) \div (2 * den)

alignPlainLyricsWithSegmentsOffByOne(plainLyrics, segments) ==
  LET lines == splitPlainLyrics(plainLyrics)
      n == Len(lines)
      m == Len(segments)
      segIdx(idx) == Min(m - 1, Max(0, IF n = 1 THEN 0 ELSE RoundDiv(idx * (m - 1), n - 1)))
      timed == Arr([i \in 1..n |-> [t |-> segments[segIdx(i - 1) + 1].start, text |-> lines[i]]])
  IN IF n <= MinAlignLines \/ m <= MinAlignLines THEN <<>>
     ELSE DedupAdjacent(SortByTime(timed), <<>>, AlignDedupGap)

alignPlainLyricsWithSegments(plainLyrics, segments) ==
  LET lines == splitPlainLyrics(plainLyrics)
      n == Len(lines)
      m == Len(segments)
      segIdx(idx) == Min(m - 1, Max(0, IF n = 1 THEN 0 ELSE RoundDiv(idx * (m - 1), n - 1)))
      timed == Arr([i \in 1..n |-> [t |-> segments[segIdx(i - 1) + 1].start, text |-> lines[i]]])
  IN IF n < MinAlignLines \/ m < MinAlignLines THEN <<>>
     ELSE DedupAdjacent(SortByTime(timed), <<>>, AlignDedupGap)

\* ------------------------------------------------------------ cache document
\* A JSON document is a record; a key that is missing (or whose value
\* JSON.stringify drops because it is undefined) is not in its DOMAIN.
Null == [kind |-> "null"]
AbsentFile == [kind |-> "absent"]
MalformedFile == [kind |-> "malformed"]
HasKey(doc, key) == key \in DOMAIN doc

StringifyCandidate(c) ==
  LET base == [id |-> c.id, label |-> c.label, source |-> c.source, mode |-> c.mode,
               lines |-> c.lines, syncMethod |-> c.syncMethod, score |-> c.score]
  IN IF c.plainLyrics = UNDEF THEN base ELSE base @@ [plainLyrics |-> c.plainLyrics]

JsonStringifyNoCandidates(result) ==
  [kind |-> "json", videoId |-> result.videoId, source |-> result.source,
   mode |-> result.mode, lines |-> result.lines, syncMethod |-> result.syncMethod,
   selectedCandidateId |-> result.selectedCandidateId]

\* JSON.stringify(result, null, 2)
JsonStringify(result) ==
  LET base == [kind |-> "json", videoId |-> result.videoId, source |-> result.source,
               mode |-> result.mode, lines |-> result.lines, syncMethod |-> result.syncMethod,
               selectedCandidateId |-> result.selectedCandidateId,
               candidates |-> Arr([i \in 1..Len(result.candidates) |->
                                 StringifyCandidate(result.candidates[i])])]
  IN IF result.plainLyrics = UNDEF THEN base ELSE base @@ [plainLyrics |-> result.plainLyrics]

CoerceSource(d) ==
  IF HasKey(d, "source") /\ d.source \in {"captions", "catalog", "catalog_aligned", "stt"}
  THEN d.source ELSE "none"
CoerceMode(d) == IF HasKey(d, "mode") /\ d.mode = "plain" THEN "plain" ELSE "timed"
CoerceSyncLoose(d) == IF HasKey(d, "syncMethod") THEN d.syncMethod ELSE "none"
CoerceSync(d) == IF HasKey(d, "syncMethod") /\ d.syncMethod \in {"native", "ai"} THEN d.syncMethod ELSE "none"
CoerceLines(ls) == SelectSeq(ls, LAMBDA l : IsFinite(l.t))
CoercePlainToEmpty(d) == IF HasKey(d, "plainLyrics") THEN d.plainLyrics ELSE <<>>
CoercePlain(d) == IF HasKey(d, "plainLyrics") THEN d.plainLyrics ELSE UNDEF

ReviveCandidateUnscored(c) ==
  [id |-> c.id, label |-> c.label, source |-> CoerceSource(c), mode |-> CoerceMode(c),
   lines |-> CoerceLines(c.lines), plainLyrics |-> CoercePlain(c), syncMethod |-> CoerceSync(c),
   score |-> 0]

ReviveCandidate(c) ==
  [id |-> c.id, label |-> c.label, source |-> CoerceSource(c), mode |-> CoerceMode(c),
   lines |-> CoerceLines(c.lines), plainLyrics |-> CoercePlain(c), syncMethod |-> CoerceSync(c),
   score |-> IF HasKey(c, "score") /\ IsFinite(c.score) THEN c.score ELSE 0]

readCachedLyrics(doc, videoId) ==
  IF doc.kind # "json" THEN Null
  ELSE IF ~HasKey(doc, "videoId") \/ doc.videoId # videoId \/ ~HasKey(doc, "lines") THEN Null
  ELSE LET kept == IF HasKey(doc, "candidates")
                   THEN SelectSeq(doc.candidates,
                          LAMBDA c : HasKey(c, "id") /\ HasKey(c, "label") /\ HasKey(c, "lines"))
                   ELSE <<>>
       IN [videoId |-> videoId, source |-> CoerceSource(doc), mode |-> CoerceMode(doc),
           lines |-> CoerceLines(doc.lines), plainLyrics |-> CoercePlain(doc),
           syncMethod |-> CoerceSync(doc),
           selectedCandidateId |-> IF HasKey(doc, "selectedCandidateId")
                                   THEN doc.selectedCandidateId ELSE <<"undefined", 0, "">>,
           candidates |-> Arr([i \in 1..Len(kept) |-> ReviveCandidate(kept[i])])]

cacheUsableIgnoringCandidates(cached, expectedScript) ==
  cached # Null /\ hasCompatibleLyricsPayload(cached, expectedScript)

\* the condition of the early return in getLyrics
cacheUsable(cached, expectedScript) ==
  /\ cached # Null
  /\ hasCompatibleLyricsPayload(cached, expectedScript)
  /\ Len(cached.candidates) > 0

\* ------------------------------------------------------------------ metadata
readMeta(metaFile) ==
  IF metaFile.kind # "json" THEN [title |-> <<>>, channelTitle |-> <<>>]
  ELSE [title |-> IF HasKey(metaFile, "title") THEN metaFile.title ELSE <<>>,
        channelTitle |-> IF HasKey(metaFile, "channelTitle") THEN metaFile.channelTitle ELSE <<>>]

\* ------------------------------------------------------------ caption source
\* A caption file is [name, lang, auto, ord, content]: lang is the language tag
\* subtitleLanguageCode reads from the name, auto whether the name carries an
\* auto/asr/orig marker, ord the rank of the name under localeCompare.

isSubtitleLangCompatible(file, expected) ==
  IF file.lang = "" THEN TRUE
  ELSE IF expected = "unknown" \/ expected = "mixed" THEN TRUE
  ELSE IF expected = "korean" THEN file.lang \in {"ko", "en"}
  ELSE IF expected = "japanese" THEN file.lang \in {"ja", "en"}
  ELSE IF expected = "cyrillic" THEN file.lang \in {"ru", "uk", "bg", "sr", "mk", "be"}
  ELSE IF expected = "latin"
  THEN file.lang \in {"en", "fr", "es", "de", "it", "pt", "nl", "sv", "no", "da", "fi", "ro", "tr"}
  ELSE TRUE

subtitleLangScore(file) ==
  IF file.lang = "en" THEN 40
  ELSE IF file.lang = "ko" THEN 30
  ELSE IF file.lang = "ja" THEN 20
  ELSE IF file.lang = "fr" THEN 10
  ELSE 0

subtitleManualScoreLow(file) == IF file.auto THEN 0 ELSE 30

subtitleManualScore(file) == IF file.auto THEN 0 ELSE 100

NoFile == [name |-> "", lang |-> "", auto |-> FALSE, ord |-> 0, content |-> <<>>]

\* the first file under (score descending, name ascending)
pickBestSubtitleFile(files, expectedScript) ==
  LET compatible == {f \in files : isSubtitleLangCompatible(f, expectedScript)}
      pool == IF compatible # {} THEN compatible ELSE files
      rank(f) == subtitleManualScore(f) + subtitleLangScore(f)
  IN IF files = {} THEN NoFile
     ELSE CHOOSE f \in pool : \A g \in pool :
            rank(f) > rank(g) \/ (rank(f) = rank(g) /\ f.ord <= g.ord)

\* ------------------------------------------------------------ catalog source
\* cleanSearchName on titles of the modelled alphabet, which carry no bracketed
\* annotation, marketing keyword or bullet: whitespace collapse and trim remain.
cleanSearchName(input) == Trim(CollapseWs(input))

DashSep == <<" ", "-", " ">>

\* the least index at which sep occurs in s, 0 when it does not
IndexOf(s, sep) ==
  LET hits == {i \in 1..(Len(s) - Len(sep) + 1) : SubSeq(s, i, i + Len(sep) - 1) = sep}
  IN IF Len(sep) > Len(s) \/ hits = {} THEN 0
     ELSE CHOOSE i \in hits : \A j \in hits : i <= j

\* String.prototype.includes
Includes(hay, needle) == needle = <<>> \/ IndexOf(hay, needle) > 0

LowerCase(s) == Arr([i \in 1..Len(s) |-> ToLower(s[i])])

RECURSIVE DedupQueries(_, _)
DedupQueries(qs, seen) ==
  IF qs = <<>> THEN <<>>
  ELSE LET key == <<LowerCase(Head(qs).artist), LowerCase(Head(qs).track)>>
       IN IF key \in seen THEN DedupQueries(Tail(qs), seen)
          ELSE <<Head(qs)>> \o DedupQueries(Tail(qs), seen \cup {key})

extractArtistTrackCandidates(title, channelTitle) ==
  LET cleanedTitle == cleanSearchName(title)
      cleanedChannel == Trim(cleanSearchName(channelTitle))
      at == IndexOf(cleanedTitle, DashSep)
      left == Trim(SubSeq(cleanedTitle, 1, at - 1))
      right == Trim(SubSeq(cleanedTitle, at + Len(DashSep), Len(cleanedTitle)))
      dashed == IF at > 0 /\ left # <<>> /\ right # <<>>
                THEN <<[artist |-> left, track |-> right]>> ELSE <<>>
      fallback == IF cleanedTitle # <<>>
                  THEN <<[artist |-> cleanedChannel, track |-> cleanedTitle]>> ELSE <<>>
  IN DedupQueries(dashed \o fallback, {})

\* A catalog track is [trackName, artistName, syncedLyrics, plainLyrics]; an
\* absent or empty string field is <<>>.
scoreCatalogCandidate(track, artist, song) ==
  LET t == LowerCase(track.trackName)
      a == LowerCase(track.artistName)
      targetTrack == LowerCase(song)
      targetArtist == LowerCase(artist)
  IN (IF t = targetTrack THEN 12
      ELSE IF Includes(t, targetTrack) \/ Includes(targetTrack, t) THEN 8 ELSE 0)
   + (IF targetArtist # <<>> /\ a = targetArtist THEN 10
      ELSE IF targetArtist # <<>> /\ (Includes(a, targetArtist) \/ Includes(targetArtist, a)) THEN 6
      ELSE 0)
   + (IF track.syncedLyrics # <<>> THEN 10 ELSE 0)
   + (IF Trim(track.plainLyrics) # <<>> THEN 3 ELSE 0)

extractSyncedLines(track) == IF track.syncedLyrics = <<>> THEN <<>> ELSE parseLrc(track.syncedLyrics)

extractPlainLyrics(track) == normalizePlainLyrics(track.plainLyrics)

NameOr(a, b) == IF a # <<>> THEN a ELSE b
CatalogLabel(track, q) ==
  NameOr(track.trackName, q.track) \o <<" ", "-", " ">>
    \o NameOr(track.artistName, NameOr(q.artist, <<"U">>))

NoTrack ==
  [trackName |-> <<>>, artistName |-> <<>>, syncedLyrics |-> <<>>, plainLyrics |-> <<>>,
   null |-> TRUE]
IsNullTrack(tr) == HasKey(tr, "null")

\* what one query contributes to `collected`: the direct hit, then the six
\* best-ranked search hits
CollectQuery(q, direct, results) ==
  LET directRows == IF IsNullTrack(direct) THEN <<>>
                    ELSE <<[track |-> direct,
                            score |-> scoreCatalogCandidate(direct, q.artist, q.track) + 15,
                            label |-> CatalogLabel(direct, q)]>>
      rows == Arr([i \in 1..Len(results) |->
                 [track |-> results[i],
                  score |-> scoreCatalogCandidate(results[i], q.artist, q.track),
                  label |-> CatalogLabel(results[i], q)]])
  IN directRows \o Slice(SortByScoreDesc(rows), 6)

RECURSIVE CollectAll(_, _)
\* responses[i] = [direct, results] answers queries[i]
CollectAll(queries, responses) ==
  IF queries = <<>> THEN <<>>
  ELSE CollectQuery(Head(queries), Head(responses).direct, Head(responses).results)
         \o CollectAll(Tail(queries), Tail(responses))

\* what the dedup loop derives from one collected row
CatalogRow(c) ==
  LET synced == extractSyncedLines(c.track)
      plain == extractPlainLyrics(c.track)
  IN [c |-> c,
      text |-> Trim(LinesText(synced, <<" ">>) \o <<" ">> \o plain),
      key |-> <<LowerCase(c.track.trackName), LowerCase(c.track.artistName),
                normalizedLyricsFingerprint(IF Len(synced) > 0 THEN "timed" ELSE "plain",
                                            synced, plain)>>]

RECURSIVE CatalogDedupLoopNoKeys(_, _, _)
CatalogDedupLoopNoKeys(rows, seenKeys, expectedScript) ==
  IF rows = <<>> THEN <<>>
  ELSE LET r == Head(rows)
       IN IF r.text = <<>> \/ ~isScriptCompatible(r.text, expectedScript)
          THEN CatalogDedupLoopNoKeys(Tail(rows), seenKeys, expectedScript)
          ELSE <<r.c>> \o CatalogDedupLoopNoKeys(Tail(rows), seenKeys, expectedScript)

RECURSIVE CatalogDedupLoop(_, _, _)
CatalogDedupLoop(rows, seenKeys, expectedScript) ==
  IF rows = <<>> THEN <<>>
  ELSE LET r == Head(rows)
       IN IF r.text = <<>> \/ ~isScriptCompatible(r.text, expectedScript) \/ r.key \in seenKeys
          THEN CatalogDedupLoop(Tail(rows), seenKeys, expectedScript)
          ELSE <<r.c>> \o CatalogDedupLoop(Tail(rows), seenKeys \cup {r.key}, expectedScript)

CatalogDedup(collected, expectedScript) ==
  CatalogDedupLoop(Arr([i \in 1..Len(collected) |-> CatalogRow(collected[i])]), {}, expectedScript)

fetchCatalogLyricsCandidatesUnlimited(metaFile, expectedScript, responses) ==
  LET meta == readMeta(metaFile)
      queries == extractArtistTrackCandidates(meta.title, meta.channelTitle)
      collected == CollectAll(queries, responses)
  IN SortByScoreDesc(CatalogDedup(SortByScoreDesc(collected), expectedScript))

fetchCatalogLyricsCandidates(metaFile, expectedScript, responses) ==
  LET meta == readMeta(metaFile)
      queries == extractArtistTrackCandidates(meta.title, meta.channelTitle)
      collected == CollectAll(queries, responses)
  IN Slice(SortByScoreDesc(CatalogDedup(SortByScoreDesc(collected), expectedScript)),
           CatalogLimit)

\* ------------------------------------------------------ transcription source
\* env is what the outside world does during the call: whether yt-dlp is
\* installed, whether the audio download leaves source.m4a, how the whisper run
\* ends ("missing", "fail", "nofile", "ok") and the document it writes.
runWhisperAndGetSegmentsRetry(env, audio, wout) ==
  LET downloads == IF ~audio /\ env.ytDlp THEN 1 ELSE 0
      audioAfter == audio \/ (env.ytDlp /\ env.audioOk)
      stop(w, runs) == [segments |-> <<>>, audioExists |-> audioAfter, whisperOut |-> w,
                        audioDl |-> downloads, whisperRuns |-> runs]
  IN IF ~audioAfter THEN stop(wout, 0)
     ELSE IF env.whisper = "missing" THEN stop(wout, 0)
     ELSE IF env.whisper \in {"fail", "nofile"} THEN stop(AbsentFile, 2)
     ELSE [segments |-> parseWhisperSegments(env.out), audioExists |-> audioAfter,
           whisperOut |-> env.out, audioDl |-> downloads, whisperRuns |-> 1]

runWhisperAndGetSegmentsNoCatch(env, audio, wout) ==
  LET downloads == IF ~audio /\ env.ytDlp THEN 1 ELSE 0
      audioAfter == audio \/ (env.ytDlp /\ env.audioOk)
      stop(w, runs) == [segments |-> <<>>, audioExists |-> audioAfter, whisperOut |-> w,
                        audioDl |-> downloads, whisperRuns |-> runs]
  IN IF ~audioAfter THEN stop(wout, 0)
     ELSE IF env.whisper = "missing" THEN stop(wout, 0)
     ELSE IF env.whisper = "nofile" THEN stop(AbsentFile, 1)
     ELSE [segments |-> parseWhisperSegments(env.out), audioExists |-> audioAfter,
           whisperOut |-> env.out, audioDl |-> downloads, whisperRuns |-> 1]

runWhisperAndGetSegmentsKeepsOutput(env, audio, wout) ==
  LET downloads == IF ~audio /\ env.ytDlp THEN 1 ELSE 0
      audioAfter == audio \/ (env.ytDlp /\ env.audioOk)
      stop(w, runs) == [segments |-> <<>>, audioExists |-> audioAfter, whisperOut |-> w,
                        audioDl |-> downloads, whisperRuns |-> runs]
  IN IF ~audioAfter THEN stop(wout, 0)
     ELSE IF env.whisper = "missing" THEN stop(wout, 0)
     ELSE IF env.whisper = "fail" THEN stop(wout, 1)
     ELSE IF env.whisper = "nofile"
     THEN [segments |-> IF wout = AbsentFile THEN <<>> ELSE parseWhisperSegments(wout),
           audioExists |-> audioAfter, whisperOut |-> wout, audioDl |-> downloads,
           whisperRuns |-> 1]
     ELSE [segments |-> parseWhisperSegments(env.out), audioExists |-> audioAfter,
           whisperOut |-> env.out, audioDl |-> downloads, whisperRuns |-> 1]

runWhisperAndGetSegments(env, audio, wout) ==
  LET downloads == IF ~audio /\ env.ytDlp THEN 1 ELSE 0
      audioAfter == audio \/ (env.ytDlp /\ env.audioOk)
      stop(w, runs) == [segments |-> <<>>, audioExists |-> audioAfter, whisperOut |-> w,
                        audioDl |-> downloads, whisperRuns |-> runs]
  IN IF ~audioAfter THEN stop(wout, 0)
     ELSE IF env.whisper = "missing" THEN stop(wout, 0)
     ELSE IF env.whisper \in {"fail", "nofile"} THEN stop(AbsentFile, 1)
     ELSE [segments |-> parseWhisperSegments(env.out), audioExists |-> audioAfter,
           whisperOut |-> env.out, audioDl |-> downloads, whisperRuns |-> 1]

\* --------------------------------------------------------- candidate builders
CaptionsId == <<"captions_vtt", 0, "">>
SttId == <<"stt_fallback", 0, "">>
NoneId == <<"none", 0, "">>

CaptionCandidatesUnchecked(lines, expectedScript) ==
  IF isScriptCompatible(LinesText(lines, <<" ">>), expectedScript)
  THEN <<[id |-> CaptionsId, label |-> <<"YouTube captions">>, source |-> "captions",
          mode |-> "timed", lines |-> lines, plainLyrics |-> UNDEF, syncMethod |-> "native"]>>
  ELSE <<>>

\* getLyrics, stage 1: the candidate pushed for the parsed subtitle file
CaptionCandidates(lines, expectedScript) ==
  IF Len(lines) > 0 /\ isScriptCompatible(LinesText(lines, <<" ">>), expectedScript)
  THEN <<[id |-> CaptionsId, label |-> <<"YouTube captions">>, source |-> "captions",
          mode |-> "timed", lines |-> lines, plainLyrics |-> UNDEF, syncMethod |-> "native"]>>
  ELSE <<>>

RECURSIVE CatalogCandidatesFrom(_, _)
\* getLyrics, stage 2: the loop over catalogCandidates, i is the 1-based index
CatalogCandidatesFrom(cc, i) ==
  IF i > Len(cc) THEN <<>>
  ELSE LET c == cc[i]
           synced == extractSyncedLines(c.track)
           plain == extractPlainLyrics(c.track)
       IN (IF Len(synced) > 0
           THEN <<[id |-> <<"catalog_synced", i, "">>, label |-> c.label, source |-> "catalog",
                   mode |-> "timed", lines |-> synced, plainLyrics |-> UNDEF,
                   syncMethod |-> "native"]>>
           ELSE IF plain # <<>>
           THEN <<[id |-> <<"catalog_plain", i, "">>, label |-> c.label, source |-> "catalog",
                   mode |-> "plain", lines |-> <<>>, plainLyrics |-> plain,
                   syncMethod |-> "none"]>>
           ELSE <<>>)
          \o CatalogCandidatesFrom(cc, i + 1)

PlainForAlignAnyCatalog(raw) ==
  Slice(SelectSeq(raw, LAMBDA c : c.source = "catalog"), AlignPlainLimit)

PlainForAlign(raw) ==
  Slice(SelectSeq(raw, LAMBDA c : c.source = "catalog" /\ c.mode = "plain"), AlignPlainLimit)

RECURSIVE AlignedCandidates(_, _)
\* getLyrics, stage 3: one catalog_aligned candidate per successful alignment
AlignedCandidates(plains, segments) ==
  IF plains = <<>> \/ Len(segments) = 0 THEN <<>>
  ELSE LET c == Head(plains)
           aligned == alignPlainLyricsWithSegments(OrEmpty(c.plainLyrics), segments)
       IN (IF Len(aligned) > 0
           THEN <<[id |-> <<c.id[1], c.id[2], "_aligned">>, label |-> c.label \o <<" (AI sync)">>,
                   source |-> "catalog_aligned", mode |-> "timed", lines |-> aligned,
                   plainLyrics |-> c.plainLyrics, syncMethod |-> "ai"]>>
           ELSE <<>>)
          \o AlignedCandidates(Tail(plains), segments)

\* getLyrics, stage 4: the candidate pushed for the transcription segments
SttCandidates(sttSegments) ==
  LET lines == parseWhisperJson([kind |-> "json", ok |-> TRUE,
                 segments |-> Arr([i \in 1..Len(sttSegments) |->
                                 [start |-> sttSegments[i].start, text |-> sttSegments[i].text]])])
  IN IF Len(sttSegments) > 0 /\ Len(lines) > 0
     THEN <<[id |-> SttId, label |-> <<"Whisper transcription">>, source |-> "stt",
             mode |-> "timed", lines |-> lines, plainLyrics |-> UNDEF, syncMethod |-> "ai"]>>
     ELSE <<>>

NoneCandidate ==
  [id |-> NoneId, label |-> <<"No lyrics">>, source |-> "none", mode |-> "plain",
   lines |-> <<>>, plainLyrics |-> <<>>, syncMethod |-> "none", score |-> 0]

NoneResult ==
  [videoId |-> VideoId, source |-> "none", mode |-> "plain", lines |-> <<>>,
   plainLyrics |-> <<>>, syncMethod |-> "none", selectedCandidateId |-> NoneId,
   candidates |-> <<NoneCandidate>>]

ScoreAll(raw, expectedScript) ==
  SortByScoreDesc(Arr([i \in 1..Len(raw) |->
    [id |-> raw[i].id, label |-> raw[i].label, source |-> raw[i].source, mode |-> raw[i].mode,
     lines |-> raw[i].lines, plainLyrics |-> raw[i].plainLyrics, syncMethod |-> raw[i].syncMethod,
     score |-> scoreLyricsCandidate(raw[i], expectedScript)]]))

BuildResultLastSelected(videoId, topCandidates) ==
  LET selected == topCandidates[1]
  IN [videoId |-> videoId, source |-> selected.source, mode |-> selected.mode,
      lines |-> selected.lines, plainLyrics |-> selected.plainLyrics,
      syncMethod |-> selected.syncMethod,
      selectedCandidateId |-> topCandidates[Len(topCandidates)].id,
      candidates |-> topCandidates]

\* getLyrics: the result object built from the top candidates (non-empty)
BuildResult(videoId, topCandidates) ==
  LET selected == topCandidates[1]
  IN [videoId |-> videoId, source |-> selected.source, mode |-> selected.mode,
      lines |-> selected.lines, plainLyrics |-> selected.plainLyrics,
      syncMethod |-> selected.syncMethod, selectedCandidateId |-> selected.id,
      candidates |-> topCandidates]

\* ---------------------------------------------------- the outside world
\* Small catalogues of what the external collaborators can hand back.
\* texts the collaborators hand back
SampleText ==
  [en |->
     <<"a", "b", " ", "a", "b">>,
   enB |->
     <<"b", "a", "b">>,
   ko |->
     <<"h", "h", "h">>,
   ru |->
     <<"c", "c", "c">>,
   sym |->
     <<"#", "#">>,
   unknownWord |->
     <<"A", "b", "b", "a", "a", "b", "a">>]
LongLrcLines == 42

\* titles and channel names
SampleName ==
  [titleEn |->
     <<"a", "b">>,
   titleKo |->
     <<"h", "h", " ", "h">>,
   titleNum |->
     <<"1", "1">>,
   titleDash |->
     <<"B", "a", " ", "-", " ", "a", "b">>,
   channelEn |->
     <<"B", "a">>,
   channelNum |->
     <<"1">>]

\* subtitle files yt-dlp can leave: name, language, automatic or manual, cues
SubtitleFile ==
  [en |->
     [name |-> "captions.en.vtt", lang |-> "en", auto |-> FALSE, ord |-> 2,
     content |-> <<[start |-> 0, text |-> SampleText.en], [start |-> 250, text |-> SampleText.enB],
     [start |-> NaN, text |-> SampleText.en]>>],
   enAuto |->
     [name |-> "captions.en-orig.vtt", lang |-> "en", auto |-> TRUE, ord |-> 1,
     content |-> <<[start |-> 0, text |-> SampleText.sym]>>],
   ko |->
     [name |-> "captions.ko.vtt", lang |-> "ko", auto |-> FALSE, ord |-> 4,
     content |-> <<[start |-> 300, text |-> SampleText.ko], [start |-> 100, text |-> SampleText.ko]>>],
   ru |->
     [name |-> "captions.ru.vtt", lang |-> "ru", auto |-> FALSE, ord |-> 5,
     content |-> <<[start |-> 0, text |-> SampleText.ru]>>],
   bad |->
     [name |-> "captions.fr.vtt", lang |-> "fr", auto |-> FALSE, ord |-> 3,
     content |-> <<[start |-> NaN, text |-> SampleText.en], [start |-> 10, text |-> <<"<t>", " ">>]>>]]

CaptionDownloads ==
  {{}, {SubtitleFile.en}, {SubtitleFile.enAuto}, {SubtitleFile.ko}, {SubtitleFile.ru}, {SubtitleFile.bad}, {SubtitleFile.enAuto, SubtitleFile.ko}}


\* a catalog track: syncedLyrics as the LRC lines [tags, text] of the document
Track(name, artist, synced, plain) ==
  [trackName |-> name, artistName |-> artist, syncedLyrics |-> synced, plainLyrics |-> plain]
\* tracks the catalog can answer with
CatalogTrack ==
  [synced |->
     Track(SampleName.titleEn, SampleName.channelEn,
     <<[tags |-> <<100, 900>>, text |-> SampleText.en], [tags |-> <<500>>, text |-> SampleText.enB],
     [tags |-> <<NaN>>, text |-> SampleText.en]>>,
     SampleText.en),
   dup |->
     Track(SampleName.titleEn, <<"a">>,
     <<[tags |-> <<100, 900>>, text |-> <<"A", "b", "!", " ", "<t>", "a", "b">>],
     [tags |-> <<500>>, text |-> SampleText.enB]>>,
     <<>>),
   long |->
     Track(<<"b">>, SampleName.channelEn,
     Arr([i \in 1..LongLrcLines |-> [tags |-> <<100 * i>>, text |-> <<"b">>]]), <<>>),
   ru |->
     Track(SampleName.titleEn, <<>>, <<[tags |-> <<0>>, text |-> SampleText.ru], [tags |-> <<100>>, text |-> SampleText.ru]>>, <<>>),
   plainEn |->
     Track(SampleName.titleEn, SampleName.channelEn, <<>>,
     <<"a", "b", "\n", "b", "a", "\n", "\n", "\n", "a", "a", "\n", "b", "b">>),
   plainKo |->
     Track(SampleName.titleKo, <<>>, <<>>,
           <<"h", "h", "\n", "h", "\n", "h", "\n", "h", "h", "\n", "h", "h", "h", "\n", "h">>),
   sym |->
     Track(<<>>, <<>>, <<>>, <<"#", "!", "\n", "#">>)]

NoAnswer == [direct |-> NoTrack, results |-> <<>>]
\* one query's two answers: the direct lookup (NoTrack for an error, a non-2xx
\* status or an unparsable body) and the search hits
CatalogAnswers ==
  {NoAnswer,
   [direct |-> CatalogTrack.synced, results |-> <<>>],
   [direct |-> NoTrack, results |-> <<CatalogTrack.long>>],
   [direct |-> CatalogTrack.plainEn, results |-> <<CatalogTrack.plainKo, CatalogTrack.plainEn>>],
   [direct |-> NoTrack, results |-> <<CatalogTrack.sym>>],
   [direct |-> NoTrack, results |-> <<CatalogTrack.ru, CatalogTrack.plainKo>>],
   [direct |-> CatalogTrack.synced, results |-> <<CatalogTrack.dup, CatalogTrack.long, CatalogTrack.ru, CatalogTrack.plainKo>>]}

Segs(texts) == Arr([i \in 1..Len(texts) |-> [start |-> 100 * i, text |-> texts[i]]])
\* documents whisper can leave in source.json
WhisperOutput ==
  [en |->
     [kind |-> "json", ok |-> TRUE, segments |-> Segs(<<SampleText.en, SampleText.enB, SampleText.en, SampleText.enB, SampleText.en>>)],
   ru |->
     [kind |-> "json", ok |-> TRUE, segments |-> Segs(<<SampleText.ru, SampleText.ru, SampleText.ru, SampleText.ru>>)],
   poor |->
     [kind |-> "json", ok |-> TRUE,
     segments |-> <<[start |-> NaN, text |-> SampleText.en], [start |-> 0 - 5, text |-> SampleText.en],
     [start |-> 20, text |-> <<" ">>], [start |-> 40, text |-> SampleText.sym]>>],
   malformed |->
     [kind |-> "json", ok |-> FALSE, segments |-> <<>>]]

WhisperEnvs ==
  {[ytDlp |-> FALSE, audioOk |-> FALSE, whisper |-> "ok", out |-> WhisperOutput.en],
   [ytDlp |-> TRUE, audioOk |-> TRUE, whisper |-> "missing", out |-> WhisperOutput.en],
   [ytDlp |-> TRUE, audioOk |-> TRUE, whisper |-> "fail", out |-> WhisperOutput.en],
   [ytDlp |-> TRUE, audioOk |-> TRUE, whisper |-> "nofile", out |-> WhisperOutput.en],
   [ytDlp |-> TRUE, audioOk |-> TRUE, whisper |-> "ok", out |-> WhisperOutput.en],
   [ytDlp |-> TRUE, audioOk |-> TRUE, whisper |-> "ok", out |-> WhisperOutput.ru],
   [ytDlp |-> TRUE, audioOk |-> TRUE, whisper |-> "ok", out |-> WhisperOutput.poor],
   [ytDlp |-> TRUE, audioOk |-> TRUE, whisper |-> "ok", out |-> WhisperOutput.malformed]}

MetaJson(title, channelTitle) == [kind |-> "json", title |-> title, channelTitle |-> channelTitle]
\* request bodies of POST /api/prepare
PrepareRequests ==
  {[title |-> <<>>, channelTitle |-> <<>>],
   [title |-> SampleName.titleKo, channelTitle |-> SampleName.channelNum],
   [title |-> SampleName.titleNum, channelTitle |-> SampleName.channelNum],
   [title |-> SampleName.titleDash, channelTitle |-> SampleName.channelEn]}

\* a document left by a release that did not yet store candidates
LegacyDoc ==
  [kind |-> "json", videoId |-> VideoId, source |-> "captions", mode |-> "timed",
   lines |-> <<[t |-> 0, text |-> SampleText.en]>>]
\* cache directories found at start-up: empty, damaged, or left by the older release
InitDirs ==
  {[meta |-> AbsentFile, lyrics |-> AbsentFile],
   [meta |-> MalformedFile, lyrics |-> MalformedFile],
   [meta |-> [kind |-> "json"], lyrics |-> AbsentFile],
   [meta |-> AbsentFile, lyrics |-> LegacyDoc]}

\* the answers to one call's catalog queries: the first k queries find the same
\* answer, the later ones find nothing
AnswerPlans(n) ==
  IF n = 0 THEN {<<>>}
  ELSE {Arr([i \in 1..n |-> IF i <= k THEN a ELSE NoAnswer]) : a \in CatalogAnswers, k \in 1..n}

\* ------------------------------------------------------------------ state
VARIABLES
  metaFile,        \* cache/<id>/meta.json
  cacheDoc,        \* cache/<id>/lyrics.json
  captionFiles,    \* cache/<id>/captions.*.vtt
  audioExists,     \* cache/<id>/source.m4a exists
  whisperOut,      \* cache/<id>/source.json
  pc,              \* position of the getLyrics call: idle, captions, catalog, align, stt, finalize, done
  expectedScript,  \* getLyrics local
  rawCandidates,   \* getLyrics local
  outcome,         \* "none" before the first call, then running / returned / threw
  result,          \* the value the call returned
  callNo,          \* number of calls started
  hit,             \* the call returned from the cache
  calls,           \* external invocations and cache writes of the current call, and the
                   \* kinds of file its external calls wrote
  seen,            \* sources that handed back non-empty, script-compatible text in the current call
  persisted,       \* the result object last handed to writeCachedLyrics
  response,        \* what GET /api/lyrics answered last: query, status, body
  supplied,        \* meta.json holds a title or channel that a prepare request supplied
  searchItems,     \* searchYouTube: the items of the API's last answer
  searchResult,    \* searchYouTube: the list it returned last
  ui,              \* web client: React state and the two audio elements
  net,             \* web client: requests, answers and timers under way
  jobs,            \* prepare route: the status of each job
  procs,           \* two concurrent getLyrics calls: position and locals of each
  remote,          \* what the subtitle and catalog services hold for the video
  probe            \* one call of a pure function: its name, its arguments, what it returned

lyricsVars == <<metaFile, cacheDoc, captionFiles, audioExists, whisperOut, pc, expectedScript,
                rawCandidates, outcome, result, callNo, hit, calls, seen, persisted,
                response, supplied>>
searchVars == <<searchItems, searchResult>>
\* what the lyrics route and pipeline never touch
webVars == <<ui, net, jobs>>
concVars == <<procs, remote>>
outsideLyrics == <<searchVars, webVars, concVars, probe>>
outsideWeb == <<lyricsVars, searchVars, concVars, probe>>
outsideProbe == <<lyricsVars, searchVars, webVars, concVars>>
\* what the two concurrent calls leave alone: all but the files of cache/<id>/
outsideConc == <<pc, expectedScript, rawCandidates, outcome, result, callNo, hit, calls, seen,
                 persisted, response, supplied, searchVars, webVars, probe>>
vars == <<lyricsVars, searchVars, webVars, concVars, probe>>

NoCalls ==
  [captionDl |-> 0, catalogReq |-> 0, audioDl |-> 0, whisper |-> 0, cacheWrite |-> 0, wrote |-> {}]

LyricsInit ==
  /\ \E dir \in InitDirs : metaFile = dir.meta /\ cacheDoc = dir.lyrics
  /\ captionFiles = {}
  /\ audioExists = FALSE
  /\ whisperOut = AbsentFile
  /\ pc = "idle"
  /\ expectedScript = "unknown"
  /\ rawCandidates = <<>>
  /\ outcome = "none"
  /\ result = Null
  /\ callNo = 0
  /\ hit = FALSE
  /\ calls = NoCalls
  /\ seen = {}
  /\ persisted = Null
  /\ response = Null
  /\ supplied = FALSE
\* no call of the single-call pipeline has started
CallIdle ==
  /\ pc = "idle" /\ expectedScript = "unknown" /\ rawCandidates = <<>> /\ outcome = "none"
  /\ result = Null /\ callNo = 0 /\ hit = FALSE /\ calls = NoCalls /\ seen = {}
  /\ persisted = Null /\ response = Null /\ supplied = FALSE

SearchIdle == searchItems = [ok |-> FALSE, items |-> <<>>, details |-> <<>>] /\ searchResult = <<>>

\* the web client after its first render
CountdownFrom == 3
\* jobId: no job, the job of a recent item, the job of a local song; the jobs of the
\* server are numbered from 1
NoJob == 0
RecentJob == 0 - 1
LocalJob == 0 - 2
WebUiInit ==
  [phase |-> "browse", songs |-> <<>>, q |-> "", song |-> Null,
   cd |-> CountdownFrom, lyrics |-> <<>>, active |-> 0 - 1, ytLyrics |-> <<>>,
   ytLyricsSource |-> "idle", ytLyricsLoading |-> FALSE, ytLyricsMode |-> "timed",
   ytPlainLyrics |-> "", ytLyricCandidates |-> <<>>, selectedLyricCandidateId |-> "",
   youtubeResults |-> <<>>, selectedVideo |-> Null, youtubeOverlayId |-> "",
   jobId |-> NoJob, jobStatus |-> Null, recent |-> <<>>, inst |-> Null, vox |-> Null]
WebNetInit ==
  [prepare |-> "", polls |-> EmptyBag, polling |-> FALSE, timers |-> 0, lyrics |-> "",
   out |-> <<>>]
WebIdle == ui = WebUiInit /\ net = WebNetInit /\ jobs = <<>>

\* the two concurrent calls before they start
Procs == {1, 2}
ProcIdle ==
  [pc |-> "idle", expected |-> "unknown", raw |-> <<>>, stage |-> "", wrote |-> {},
   found |-> {}, ran |-> FALSE, outcome |-> "none", result |-> Null]
ConcIdle == procs = [p \in Procs |-> ProcIdle] /\ remote = [subs |-> {}, answer |-> NoAnswer]

\* no pure function is being called on its own
ProbeIdle == probe = [fn |-> "none", applied |-> FALSE]

Init == LyricsInit /\ SearchIdle /\ WebIdle /\ ConcIdle /\ ProbeIdle

TitleOrUnknown(t) == IF t = <<>> THEN SampleText.unknownWord ELSE t

\* POST /api/prepare and the background job it starts: downloadAudio leaves
\* source.m4a, and once the separation has succeeded writeMeta stores the title and
\* channel with the defaults for an omitted one
Prepare ==
  /\ pc \in {"idle", "done"}
  /\ callNo < MaxCalls
  /\ \E req \in PrepareRequests, downloaded \in BOOLEAN, separated \in BOOLEAN :
       /\ audioExists' = (audioExists \/ downloaded)
       /\ metaFile' = IF (audioExists \/ downloaded) /\ separated
                      THEN MetaJson(TitleOrUnknown(req.title), TitleOrUnknown(req.channelTitle))
                      ELSE metaFile
       /\ supplied' = IF (audioExists \/ downloaded) /\ separated
                      THEN req.title # <<>> \/ req.channelTitle # <<>>
                      ELSE supplied
  /\ UNCHANGED <<cacheDoc, captionFiles, whisperOut, pc, expectedScript,
                 rawCandidates, outcome, result, callNo, hit, calls, seen, persisted, response>>
  /\ UNCHANGED outsideLyrics

\* res.json(data) of the route
RouteOk(videoId, data) == [query |-> videoId, status |-> 200, body |-> JsonStringify(data)]

\* the body the route substitutes when getLyrics throws
RouteFallbackError(videoId) ==
  [query |-> videoId, status |-> 500, body |-> [kind |-> "json", error |-> "failed"]]

RouteFallback(videoId) ==
  [query |-> videoId, status |-> 200,
   body |-> [kind |-> "json", videoId |-> videoId, source |-> "none", mode |-> "plain",
             lines |-> <<>>, plainLyrics |-> <<>>, syncMethod |-> "none",
             selectedCandidateId |-> <<"none", 0, "">>,
             candidates |-> <<[id |-> <<"none", 0, "">>, label |-> <<"No lyrics">>,
                               source |-> "none", mode |-> "plain", lines |-> <<>>,
                               plainLyrics |-> <<>>, syncMethod |-> "none", score |-> 0]>>]]

\* GET /api/lyrics without a videoId: the 400 answer, getLyrics is not called
BadRequest ==
  /\ pc \in {"idle", "done"}
  /\ callNo < MaxCalls
  /\ response' = [query |-> "", status |-> 400,
                  body |-> [kind |-> "json", error |-> "videoId is required"]]
  /\ UNCHANGED <<metaFile, cacheDoc, captionFiles, audioExists, whisperOut, pc, expectedScript,
                 rawCandidates, outcome, result, callNo, hit, calls, seen, persisted, supplied>>
  /\ UNCHANGED outsideLyrics

\* GET /api/lyrics with a videoId, and getLyrics up to its first await: metadata,
\* expected script, cache check
Call ==
  /\ pc \in {"idle", "done"}
  /\ callNo < MaxCalls
  /\ callNo' = callNo + 1
  /\ LET meta == readMeta(metaFile)
         expected == detectExpectedScriptFromMeta(meta.title, meta.channelTitle)
         cached == readCachedLyrics(cacheDoc, VideoId)
     IN /\ expectedScript' = expected
        /\ IF cacheUsable(cached, expected)
           THEN /\ pc' = "done"
                /\ outcome' = "returned"
                /\ result' = cached
                /\ hit' = TRUE
                /\ response' = RouteOk(VideoId, cached)
           ELSE /\ pc' = "captions"
                /\ outcome' = "running"
                /\ result' = Null
                /\ hit' = FALSE
                /\ response' = Null
  /\ rawCandidates' = <<>>
  /\ calls' = NoCalls
  /\ seen' = {}
  /\ UNCHANGED <<metaFile, cacheDoc, captionFiles, audioExists, whisperOut, persisted, supplied>>
  /\ UNCHANGED outsideLyrics

\* stage 1: fetchCaptionsViaYtDlp, then parse the chosen file
Captions ==
  /\ pc = "captions"
  /\ \E ytDlp \in BOOLEAN, written \in CaptionDownloads :
       LET files == IF ytDlp THEN written ELSE captionFiles
           subtitleFile == IF ytDlp THEN pickBestSubtitleFile(files, expectedScript) ELSE NoFile
           lines == parseVtt(subtitleFile.content)
           pushed == CaptionCandidates(lines, expectedScript)
       IN /\ captionFiles' = files
          /\ rawCandidates' = rawCandidates \o pushed
          /\ calls' = [calls EXCEPT !.captionDl = @ + (IF ytDlp THEN 1 ELSE 0),
                                    !.wrote = IF ytDlp /\ written # {} THEN @ \cup {"captions"}
                                              ELSE @]
          /\ seen' = IF Len(lines) > 0 /\ isScriptCompatible(LinesText(lines, <<" ">>), expectedScript)
                     THEN seen \cup {"captions"} ELSE seen
  /\ pc' = "catalog"
  /\ UNCHANGED <<metaFile, cacheDoc, audioExists, whisperOut, expectedScript, outcome,
                 result, callNo, hit, persisted, response, supplied>>
  /\ UNCHANGED outsideLyrics

AfterCatalogAlwaysStt(raw) ==
  IF Len(PlainForAlign(raw)) > 0 THEN "align" ELSE "stt"

AfterCatalog(raw) ==
  IF Len(PlainForAlign(raw)) > 0 THEN "align"
  ELSE IF Len(raw) = 0 THEN "stt"
  ELSE "finalize"

\* stage 2: fetchCatalogLyricsCandidates and the loop that pushes its hits
Catalog ==
  /\ pc = "catalog"
  /\ LET meta == readMeta(metaFile)
         queries == extractArtistTrackCandidates(meta.title, meta.channelTitle)
     IN \E responses \in AnswerPlans(Len(queries)) :
          LET cc == fetchCatalogLyricsCandidates(metaFile, expectedScript, responses)
              raw == rawCandidates \o CatalogCandidatesFrom(cc, 1)
          IN /\ rawCandidates' = raw
             /\ pc' = AfterCatalog(raw)
             /\ calls' = [calls EXCEPT !.catalogReq = @ + 2 * Len(queries)]
             /\ seen' = IF Len(cc) > 0 THEN seen \cup {"catalog"} ELSE seen
  /\ UNCHANGED <<metaFile, cacheDoc, captionFiles, audioExists, whisperOut, expectedScript,
                 outcome, result, callNo, hit, persisted, response, supplied>>
  /\ UNCHANGED outsideLyrics

\* the kinds of file the audio download and the whisper run of one call of
\* runWhisperAndGetSegments wrote
WrittenBy(env, w) ==
  (IF w.audioDl > 0 /\ env.audioOk THEN {"audio"} ELSE {})
    \cup (IF w.whisperRuns > 0 /\ env.whisper = "ok" THEN {"whisper"} ELSE {})

\* stage 3: one transcription run shared by the plain catalog candidates
Align ==
  /\ pc = "align"
  /\ \E env \in WhisperEnvs :
       LET w == runWhisperAndGetSegments(env, audioExists, whisperOut)
       IN /\ rawCandidates' = rawCandidates \o AlignedCandidates(PlainForAlign(rawCandidates), w.segments)
          /\ audioExists' = w.audioExists
          /\ whisperOut' = w.whisperOut
          /\ calls' = [calls EXCEPT !.audioDl = @ + w.audioDl, !.whisper = @ + w.whisperRuns,
                                    !.wrote = @ \cup WrittenBy(env, w)]
  /\ pc' = "finalize"
  /\ UNCHANGED <<metaFile, cacheDoc, captionFiles, expectedScript, outcome, result, callNo,
                 hit, seen, persisted, response, supplied>>
  /\ UNCHANGED outsideLyrics

\* stage 4: transcription as the last resort
Stt ==
  /\ pc = "stt"
  /\ \E env \in WhisperEnvs :
       LET w == runWhisperAndGetSegments(env, audioExists, whisperOut)
           pushed == SttCandidates(w.segments)
       IN /\ rawCandidates' = rawCandidates \o pushed
          /\ audioExists' = w.audioExists
          /\ whisperOut' = w.whisperOut
          /\ calls' = [calls EXCEPT !.audioDl = @ + w.audioDl, !.whisper = @ + w.whisperRuns,
                                    !.wrote = @ \cup WrittenBy(env, w)]
          /\ seen' = IF Len(pushed) > 0
                        /\ isScriptCompatible(LinesText(pushed[1].lines, <<" ">>), expectedScript)
                     THEN seen \cup {"stt"} ELSE seen
  /\ pc' = "finalize"
  /\ UNCHANGED <<metaFile, cacheDoc, captionFiles, expectedScript, outcome, result, callNo, hit,
                 persisted, response, supplied>>
  /\ UNCHANGED outsideLyrics

\* the synchronous tail of getLyrics and the answer of the route: the "none" result,
\* or score, pick, persist
Finalize ==
  /\ pc = "finalize"
  /\ pc' = "done"
  /\ IF Len(rawCandidates) = 0
     THEN /\ result' = NoneResult
          /\ cacheDoc' = JsonStringify(NoneResult)
          /\ persisted' = NoneResult
          /\ response' = RouteOk(VideoId, NoneResult)
          /\ outcome' = "returned"
          /\ calls' = [calls EXCEPT !.cacheWrite = @ + 1]
     ELSE LET topCandidates == pickTopCandidates(ScoreAll(rawCandidates, expectedScript), TopLimit)
          IN IF Len(topCandidates) = 0
             THEN \* topCandidates[0] is undefined: reading selected.source throws a TypeError
                  /\ result' = Null
                  /\ outcome' = "threw"
                  /\ response' = RouteFallback(VideoId)
                  /\ UNCHANGED <<cacheDoc, calls, persisted>>
             ELSE /\ result' = BuildResult(VideoId, topCandidates)
                  /\ cacheDoc' = JsonStringify(BuildResult(VideoId, topCandidates))
                  /\ persisted' = BuildResult(VideoId, topCandidates)
                  /\ response' = RouteOk(VideoId, BuildResult(VideoId, topCandidates))
                  /\ outcome' = "returned"
                  /\ calls' = [calls EXCEPT !.cacheWrite = @ + 1]
  /\ UNCHANGED <<metaFile, captionFiles, audioExists, whisperOut, expectedScript, rawCandidates,
                 callNo, hit, seen, supplied>>
  /\ UNCHANGED outsideLyrics

Next == Prepare \/ BadRequest \/ Call \/ Captions \/ Catalog \/ Align \/ Stt \/ Finalize

Spec == Init /\ [][Next]_vars

\* ------------------------------------------------------ search re-ranking
\* (server/src/services/youtube.ts)  Titles and channel names are sequences of
\* words; a keyword is a sequence of words, found as a contiguous run.
WordLower(w) ==
  IF w = "Karaoke" THEN "karaoke" ELSE IF w = "Lyrics" THEN "lyrics"
  ELSE IF w = "Version" THEN "version" ELSE w
WordsLower(text) == Arr([i \in 1..Len(text) |-> WordLower(text[i])])

TITLE_STRONG_KEYWORDS ==
  {<<"karaoke", "version">>, <<"lyric", "video">>, <<"with", "lyrics">>, <<"minus", "one">>,
   <<"noraebang">>}
TITLE_MEDIUM_KEYWORDS ==
  {<<"karaoke">>, <<"lyrics">>, <<"instrumental">>, <<"no", "vocals">>, <<"gasa">>}
CHANNEL_KEYWORDS == {<<"official", "karaoke">>, <<"karaoke">>, <<"lyrics">>, <<"noraebang">>}

includesAny(text, keywords) == \E k \in keywords : Includes(text, k)

scoreSingingReadiness(video) ==
  LET title == WordsLower(video.title)
      channel == WordsLower(video.channelTitle)
      s1 == IF includesAny(title, TITLE_STRONG_KEYWORDS) THEN 12 ELSE 0
      s2 == s1 + (IF includesAny(title, TITLE_MEDIUM_KEYWORDS) THEN 7 ELSE 0)
      s3 == s2 + (IF includesAny(channel, CHANNEL_KEYWORDS) THEN 5 ELSE 0)
  IN IF s3 >= 12 /\ includesAny(channel, CHANNEL_KEYWORDS) THEN s3 + 3 ELSE s3

\* an ISO duration PT..H..M..S as [h, m, s]; the clock text as <<h, mm, ss>> or <<m, ss>>
Pad2(n) == <<n \div 10, n % 10>>
parseDuration(d) ==
  IF d.h > 0 THEN <<d.h, Pad2(d.m), Pad2(d.s)>> ELSE <<d.m, Pad2(d.s)>>

\* searchYouTube: the videos built from the search items and the details answer
MapItems(items, details) ==
  Arr([i \in 1..Len(items) |->
    [videoId |-> items[i].videoId, title |-> items[i].title,
     channelTitle |-> items[i].channelTitle,
     duration |-> IF items[i].videoId \in DOMAIN details
                  THEN parseDuration(details[items[i].videoId])
                  ELSE <<0, Pad2(0)>>]])

RankVideosUnranked(mapped) == mapped

\* searchYouTube: score, sort by score descending then by API index, strip the marks
RankVideos(mapped) ==
  SortByKeys(mapped, Arr([i \in 1..Len(mapped) |-> 0 - scoreSingingReadiness(mapped[i])]))

getMockResults(query) ==
  <<[videoId |-> "mock1", title |-> query \o <<"-", "Official", "Music", "Video">>,
     channelTitle |-> <<"Official", "Artist", "Channel">>, duration |-> <<4, Pad2(32)>>],
    [videoId |-> "mock2", title |-> query \o <<"(", "Lyrics", ")">>,
     channelTitle |-> <<"Lyrics", "Channel">>, duration |-> <<4, Pad2(15)>>],
    [videoId |-> "mock3", title |-> query \o <<"-", "Live", "Performance">>,
     channelTitle |-> <<"Live", "Music">>, duration |-> <<5, Pad2(20)>>],
    [videoId |-> "mock4", title |-> query \o <<"(", "Karaoke", "Version", ")">>,
     channelTitle |-> <<"Karaoke", "Hits">>, duration |-> <<4, Pad2(45)>>],
    [videoId |-> "mock5", title |-> query \o <<"-", "Acoustic", "Cover">>,
     channelTitle |-> <<"Acoustic", "Sessions">>, duration |-> <<3, Pad2(55)>>]>>

\* items the search API can answer with
ApiItems ==
  {[videoId |-> "v1", title |-> <<"song">>, channelTitle |-> <<"artist">>],
   [videoId |-> "v2", title |-> <<"song", "Lyrics">>, channelTitle |-> <<"artist">>],
   [videoId |-> "v5", title |-> <<"song", "live">>, channelTitle |-> <<"music">>],
   [videoId |-> "v6", title |-> <<"with", "Lyrics">>, channelTitle |-> <<"Lyrics", "tv">>]}
RECURSIVE ApiAnswers(_)
ApiAnswers(n) ==
  IF n = 0 THEN {<<>>}
  ELSE ApiAnswers(n - 1) \cup
       {Append(a, v) : a \in {b \in ApiAnswers(n - 1) : Len(b) = n - 1}, v \in ApiItems}
ApiDetails(items) ==
  {<<>>, [id \in {items[i].videoId : i \in 1..Len(items)} |-> [h |-> 0, m |-> 4, s |-> 5]]}

\* one call of searchYouTube: without an API key or when a request fails the mock
\* list is returned as it is
SearchYouTube ==
  /\ \/ \* no API key, or the search request fails
        /\ searchItems' = [ok |-> FALSE, items |-> <<>>, details |-> <<>>]
        /\ searchResult' = getMockResults(<<"song">>)
     \/ \E items \in ApiAnswers(MaxItems) :
          \/ \* the details request fails (it is not made for an empty answer)
             /\ searchItems' = [ok |-> items = <<>>, items |-> items, details |-> <<>>]
             /\ searchResult' = IF items = <<>> THEN <<>> ELSE getMockResults(<<"song">>)
          \/ \E details \in ApiDetails(items) :
               /\ searchItems' = [ok |-> TRUE, items |-> items, details |-> details]
               /\ searchResult' = IF items = <<>> THEN <<>>
                                  ELSE RankVideos(MapItems(items, details))
  /\ UNCHANGED <<lyricsVars, webVars, concVars, probe>>

LyricsQuiet == LyricsInit /\ metaFile = AbsentFile /\ cacheDoc = AbsentFile
SearchInit == LyricsQuiet /\ SearchIdle /\ WebIdle /\ ConcIdle /\ ProbeIdle
SearchSpec == SearchInit /\ [][SearchYouTube]_vars

\* ------------------------------------------------------------- web client
\* web/app/page.tsx.  React state and the two audio elements are the record
\* ui; requests, answers and timers under way are the record net; the
\* prepare jobs of the server are the sequence jobs.  A handler together with
\* the render and the effects it causes is one step.  Lyric times are whole
\* seconds here.  The requests for the playlist, the recent list, the search
\* results and a local .lrc file only fill a list: they are answered in the
\* step that sends them.  Left out, as nothing reads them but the display: the progress bar,
\* the ad slot, the busy flags, the lyrics on/off switch and the vocal volume.
\* length of a track in seconds
AudioDuration == 1
\* status requests under way and pending countdown timers, together
MaxPolls == 2
\* prepare jobs the server accepts
MaxJobs == 1

WebVideo == [videoId |-> "y1", title |-> "song", channelTitle |-> "tv"]
LocalSongs ==
  <<[id |-> "s1", title |-> "local", videoFile |-> "s1.mp4",
     instrumentalUrl |-> "/cache/s1/instrumental.wav", vocalsUrl |-> ""],
    [id |-> "s2", title |-> "bare", videoFile |-> "s2.mp4"]>>
RecentItems ==
  <<[videoId |-> "y1", title |-> "song", channelTitle |-> "tv",
     instrumentalUrl |-> "/cache/y1/instrumental.wav", vocalsUrl |-> "/cache/y1/vocals.wav"],
    [videoId |-> "y2", title |-> "", channelTitle |-> "",
     instrumentalUrl |-> "/cache/y2/instrumental.wav", vocalsUrl |-> "/cache/y2/vocals.wav"]>>
WebTimedLines == <<[t |-> 0, text |-> "la"], [t |-> 1, text |-> "li"]>>
\* bodies GET /api/lyrics can come back with
LyricsAnswers ==
  {[videoId |-> "y", source |-> "captions", mode |-> "timed", lines |-> WebTimedLines,
    plainLyrics |-> "", syncMethod |-> "native", selectedCandidateId |-> "captions_vtt",
    candidates |->
      <<[id |-> "captions_vtt", label |-> "Captions", source |-> "captions", mode |-> "timed",
         lines |-> WebTimedLines \o <<[t |-> NaN, text |-> "lo"]>>, plainLyrics |-> "",
         syncMethod |-> "native", score |-> 120],
        [id |-> "catalog_plain_1", label |-> "Catalog", source |-> "catalog", mode |-> "plain",
         lines |-> <<>>, plainLyrics |-> "la li", syncMethod |-> "none", score |-> 60],
        [id |-> "unlabelled", source |-> "stt", mode |-> "timed", lines |-> <<>>]>>],
   [videoId |-> "y", source |-> "stt", mode |-> "timed", lines |-> <<[t |-> 1, text |-> "lu"]>>,
    selectedCandidateId |-> "gone",
    candidates |->
      <<[id |-> "stt_whisper", label |-> "Whisper", source |-> "stt", mode |-> "timed",
         lines |-> <<[t |-> 1, text |-> "lu"]>>, syncMethod |-> "ai", score |-> 40],
        [id |-> "catalog_lrc_1", label |-> "Catalog", source |-> "catalog", mode |-> "timed",
         lines |-> <<[t |-> 2, text |-> "le"]>>, syncMethod |-> "native", score |-> 30]>>],
   [videoId |-> "y", source |-> "catalog_aligned", lines |-> WebTimedLines]}

Field(r, k, d) == IF k \in DOMAIN r THEN r[k] ELSE d
FiniteLine(l) == l.t # NaN
WebLines(r) == SelectSeq(Field(r, "lines", <<>>), FiniteLine)
WebSource(r) ==
  IF Field(r, "source", "") \in {"captions", "catalog", "catalog_aligned", "stt"}
  THEN r.source ELSE "none"
WebMode(r) == IF Field(r, "mode", "") = "plain" THEN "plain" ELSE "timed"
WebSyncMethod(r) ==
  IF Field(r, "syncMethod", "") \in {"native", "ai"} THEN r.syncMethod ELSE "none"
WellFormedCandidate(c) == "id" \in DOMAIN c /\ "label" \in DOMAIN c
ParseCandidate(c) ==
  [id |-> c.id, label |-> c.label, source |-> WebSource(c), mode |-> WebMode(c),
   lines |-> WebLines(c), plainLyrics |-> Field(c, "plainLyrics", ""),
   syncMethod |-> WebSyncMethod(c), score |-> Field(c, "score", 0)]
parsedCandidates(data) ==
  LET well == SelectSeq(Field(data, "candidates", <<>>), WellFormedCandidate)
  IN Arr([i \in 1..Len(well) |-> ParseCandidate(well[i])])
fallbackCandidate(data) ==
  [id |-> "default", label |-> "Default", source |-> WebSource(data), mode |-> WebMode(data),
   lines |-> WebLines(data), plainLyrics |-> Field(data, "plainLyrics", ""),
   syncMethod |-> WebSyncMethod(data), score |-> 0]
finalCandidates(data) ==
  IF parsedCandidates(data) # <<>> THEN parsedCandidates(data) ELSE <<fallbackCandidate(data)>>
CandidateIds(cs) == {cs[i].id : i \in 1..Len(cs)}
preferredCandidateId(data) ==
  LET cs == finalCandidates(data)
      preferred == IF Field(data, "selectedCandidateId", "") # "" THEN data.selectedCandidateId
                   ELSE cs[1].id
  IN IF preferred \in CandidateIds(cs) THEN preferred ELSE cs[1].id

findIdx(lines, t) ==
  LET upTo == {k \in 1..Len(lines) : \A j \in 1..k : lines[j].t <= t}
  IN IF upTo = {} THEN 0 - 1 ELSE Cardinality(upTo) - 1
\* the lines of /lyrics/<file>.lrc; a missing file parses to no line
webParseLrc(file) == IF file = "s1.mp4" THEN WebTimedLines ELSE <<>>

selectedLyricCandidate(s) ==
  IF s.youtubeOverlayId = "" \/ s.ytLyricCandidates = <<>> THEN Null
  ELSE LET cs == s.ytLyricCandidates
           at == {i \in 1..Len(cs) : cs[i].id = s.selectedLyricCandidateId}
       IN IF at = {} THEN cs[1] ELSE cs[CHOOSE i \in at : \A j \in at : i <= j]
activeLyrics(s) == IF s.youtubeOverlayId # "" THEN s.ytLyrics ELSE s.lyrics
upNext(s) ==
  LET currentId == IF s.song # Null THEN s.song.id
                   ELSE IF s.youtubeOverlayId # "" THEN s.youtubeOverlayId ELSE ""
      others == SelectSeq(s.recent, LAMBDA it : it.videoId # currentId)
  IN SubSeq(others, 1, Min(3, Len(others)))

\* an <audio> element; the two elements are rendered in phase singing only
FreshAudio == [src |-> "", time |-> 0, paused |-> TRUE]
Mount(w) ==
  IF w.ui.phase # "singing" THEN [w EXCEPT !.ui.inst = Null, !.ui.vox = Null]
  ELSE IF w.ui.inst = Null THEN [w EXCEPT !.ui.inst = FreshAudio, !.ui.vox = FreshAudio]
  ELSE w

\* the effects, in the order of the source: p is the state of the previous
\* render, s the state of this one, w the world the effects have made so far
ApplyCandidateEffect(p, s, w) ==
  LET c == selectedLyricCandidate(s)
  IN IF c = Null \/ c = selectedLyricCandidate(p) THEN w
     ELSE [w EXCEPT !.ui.ytLyrics = WebLines(c), !.ui.ytLyricsSource = c.source,
                    !.ui.ytLyricsMode = WebMode(c), !.ui.ytPlainLyrics = c.plainLyrics]
\* the status requests under way are a bag of [job, live]; the cleanup of the poll
\* effect leaves the answers of its requests nothing to clear
Stale(polls) ==
  LET of(job) == CopiesIn([job |-> job, live |-> TRUE], polls)
                 + CopiesIn([job |-> job, live |-> FALSE], polls)
  IN [e \in {[job |-> x.job, live |-> FALSE] : x \in DOMAIN polls} |-> of(e.job)]
PollEffect(p, s, w) ==
  IF p.jobId = s.jobId /\ p.phase = s.phase THEN w
  ELSE [w EXCEPT !.net.polling = s.jobId # NoJob /\ s.phase = "preparing",
                 !.net.polls = Stale(@)]
CountdownEffect(p, s, w) ==
  IF p.phase = s.phase \/ s.phase # "countdown" THEN w
  ELSE [w EXCEPT !.ui.cd = CountdownFrom]
AudioSourceDepsWithSelection ==
  {"phase", "song", "jobStatus", "youtubeOverlayId", "selectedLyricCandidateId"}
AudioSourceDeps == {"phase", "song", "jobStatus", "youtubeOverlayId"}
AudioSourceEffect(p, s, w) ==
  IF (\A d \in AudioSourceDeps : p[d] = s[d]) \/ s.phase # "singing" \/ s.song = Null THEN w
  ELSE LET ready == IF s.jobStatus = Null THEN Null ELSE Field(s.jobStatus, "result", Null)
           instUrl == IF ready = Null THEN "" ELSE ready.instrumentalUrl
           voxUrl == IF ready = Null THEN "" ELSE ready.vocalsUrl
       IN IF instUrl = ""
          THEN [w EXCEPT !.ui.inst = [src |-> s.song.videoFile, time |-> 0, paused |-> FALSE],
                         !.ui.vox.src = "",
                         !.ui.lyrics = webParseLrc(s.song.videoFile),
                         !.net.out = Append(@, "lrc")]
          ELSE LET played ==
                     [w EXCEPT !.ui.inst = [src |-> instUrl, time |-> 0, paused |-> FALSE],
                               !.ui.vox = [src |-> voxUrl, time |-> 0, paused |-> voxUrl = ""]]
               IN IF s.youtubeOverlayId # "" THEN [played EXCEPT !.ui.lyrics = <<>>]
                  ELSE [played EXCEPT !.ui.lyrics = webParseLrc(s.song.videoFile),
                                      !.net.out = Append(@, "lrc")]
LyricsFetchEffect(p, s, w) ==
  IF p.phase = s.phase /\ p.youtubeOverlayId = s.youtubeOverlayId THEN w
  ELSE LET cancelled == [w EXCEPT !.net.lyrics = ""]
       IN IF s.phase # "singing" THEN cancelled
          ELSE IF s.youtubeOverlayId = ""
          THEN [cancelled EXCEPT !.ui.ytLyrics = <<>>, !.ui.ytLyricsSource = "idle",
                                 !.ui.ytLyricsLoading = FALSE, !.ui.ytLyricsMode = "timed",
                                 !.ui.ytPlainLyrics = "", !.ui.ytLyricCandidates = <<>>,
                                 !.ui.selectedLyricCandidateId = ""]
          ELSE [cancelled EXCEPT !.ui.ytLyricsLoading = TRUE, !.ui.ytLyricsSource = "idle",
                                 !.ui.ytLyricCandidates = <<>>,
                                 !.ui.selectedLyricCandidateId = "",
                                 !.net.lyrics = s.youtubeOverlayId,
                                 !.net.out = Append(@, "lyrics")]
\* the highlight loop keeps the index on the line of the current position
Highlight(w) ==
  IF w.ui.phase # "singing" THEN w
  ELSE [w EXCEPT !.ui.active = IF activeLyrics(w.ui) = <<>> THEN 0 - 1
                               ELSE findIdx(activeLyrics(w.ui), w.ui.inst.time)]
Effects(p, w) ==
  LET s == w.ui
  IN Highlight(LyricsFetchEffect(p, s, AudioSourceEffect(p, s,
       CountdownEffect(p, s, PollEffect(p, s, ApplyCandidateEffect(p, s, Mount(w)))))))
\* render after a handler and run effects until no state changes any more
Commit(p, w) ==
  LET a == Effects(p, w)
      b == Effects(w.ui, a)
  IN Effects(a.ui, b)


\* a handler starts with nothing sent
World(s) == [ui |-> s, net |-> [net EXCEPT !.out = <<>>]]
WebStep(w) ==
  LET c == Commit(ui, w)
  IN ui' = c.ui /\ net' = c.net
resetToBrowse(s) ==
  [s EXCEPT !.inst = IF @ = Null THEN @ ELSE [@ EXCEPT !.paused = TRUE, !.src = ""],
            !.vox = IF @ = Null THEN @ ELSE [@ EXCEPT !.paused = TRUE, !.src = ""],
            !.lyrics = <<>>, !.ytLyrics = <<>>, !.ytLyricsSource = "idle",
            !.ytLyricsLoading = FALSE, !.ytLyricsMode = "timed", !.ytPlainLyrics = "",
            !.ytLyricCandidates = <<>>, !.selectedLyricCandidateId = "", !.active = 0 - 1,
            !.song = Null, !.selectedVideo = Null, !.youtubeResults = <<>>, !.jobId = NoJob,
            !.jobStatus = Null, !.q = "", !.youtubeOverlayId = "", !.phase = "browse"]
filtered(s) == IF s.q = "" THEN s.songs ELSE <<>>
ReadyStatus(id, instrumentalUrl, vocalsUrl) ==
  [jobId |-> id, status |-> "complete", progress |-> 100,
   result |-> [instrumentalUrl |-> instrumentalUrl, vocalsUrl |-> vocalsUrl]]
\* GET /api/prepare/:jobId/status: status and progress as the job holds them,
\* the two URLs if the status is complete
StatusAnswer(job) ==
  IF job \notin DOMAIN jobs THEN [error |-> "Job not found"]
  ELSE IF jobs[job].status = "complete"
  THEN [jobId |-> job, status |-> jobs[job].status, progress |-> jobs[job].progress,
        result |-> [instrumentalUrl |-> "/cache/y1/instrumental.wav",
                    vocalsUrl |-> "/cache/y1/vocals.wav"]]
  ELSE [jobId |-> job, status |-> jobs[job].status, progress |-> jobs[job].progress]

\* the Refresh button of the recent list
refreshRecent ==
  /\ ui.phase = "browse"
  /\ \E d \in {RecentItems, <<>>} \ {ui.recent} :
       WebStep([World([ui EXCEPT !.recent = d]) EXCEPT !.net.out = Append(@, "recent")])
  /\ UNCHANGED <<jobs, outsideWeb>>
TypeQuery ==
  /\ ui.phase = "browse"
  /\ \E text \in {"", "song"} \ {ui.q} : WebStep(World([ui EXCEPT !.q = text]))
  /\ UNCHANGED <<jobs, outsideWeb>>
handleSearch ==
  /\ ui.phase = "browse" /\ ui.q # ""
  /\ \E d \in {<<WebVideo>>, <<>>} :
       WebStep([World([ui EXCEPT !.youtubeResults = d, !.phase = "selecting"])
                  EXCEPT !.net.out = Append(@, "search")])
  /\ UNCHANGED <<jobs, outsideWeb>>
BackToBrowse ==
  /\ ui.phase = "selecting"
  /\ WebStep(World([ui EXCEPT !.phase = "browse"]))
  /\ UNCHANGED <<jobs, outsideWeb>>
handleSelectVideo ==
  /\ ui.phase = "selecting"
  /\ \E i \in 1..Len(ui.youtubeResults) :
       LET video == ui.youtubeResults[i]
       IN WebStep([World([ui EXCEPT !.selectedVideo = video,
                                    !.youtubeOverlayId = video.videoId,
                                    !.song = [id |-> video.videoId, title |-> video.title,
                                              videoFile |-> video.videoId],
                                    !.phase = "preparing"])
                     EXCEPT !.net.prepare = video.videoId, !.net.out = Append(@, "prepare")])
  /\ UNCHANGED <<jobs, outsideWeb>>
\* POST /api/prepare answers with the id of a new job, or the request fails.
\* The handler stores the job as pending and calls processVideo, which runs up
\* to its first await before the handler answers.
PrepareAnswer ==
  /\ net.prepare # ""
  /\ \/ /\ Len(jobs) < MaxJobs
        /\ LET created == [status |-> "pending", progress |-> 0]
           IN jobs' = Append(jobs, [created EXCEPT !.status = "downloading", !.progress = 10])
        /\ WebStep([World([ui EXCEPT !.jobId = Len(jobs) + 1]) EXCEPT !.net.prepare = ""])
     \/ /\ WebStep([World(ui) EXCEPT !.net.prepare = ""])
        /\ UNCHANGED jobs
  /\ UNCHANGED outsideWeb
\* processVideo with a catch block that leaves the progress as it was
ServerStepKeepsProgress ==
  /\ \E job \in DOMAIN jobs :
       \/ /\ jobs[job].status = "downloading"
          /\ jobs' = [jobs EXCEPT ![job] = [status |-> "separating", progress |-> 50]]
       \/ /\ jobs[job].status = "separating"
          /\ jobs' = [jobs EXCEPT ![job] = [status |-> "complete", progress |-> 100]]
       \/ /\ jobs[job].status \in {"downloading", "separating"}
          /\ jobs' = [jobs EXCEPT ![job].status = "error"]
  /\ UNCHANGED <<ui, net, outsideWeb>>
\* processVideo on the server, from one await to the next: the download ends,
\* the separation ends, or one of the two throws
ServerStep ==
  /\ \E job \in DOMAIN jobs :
       \/ /\ jobs[job].status = "downloading"
          /\ jobs' = [jobs EXCEPT ![job] = [status |-> "separating", progress |-> 50]]
       \/ /\ jobs[job].status = "separating"
          /\ jobs' = [jobs EXCEPT ![job] = [status |-> "complete", progress |-> 100]]
       \/ /\ jobs[job].status \in {"downloading", "separating"}
          /\ jobs' = [jobs EXCEPT ![job] = [status |-> "error", progress |-> 0]]
  /\ UNCHANGED <<ui, net, outsideWeb>>
PollTick ==
  /\ net.polling /\ BagCardinality(net.polls) + net.timers < MaxPolls
  /\ WebStep([World(ui) EXCEPT !.net.polls = @ (+) SetToBag({[job |-> ui.jobId, live |-> TRUE]}),
                               !.net.out = Append(@, "status")])
  /\ UNCHANGED <<jobs, outsideWeb>>
PollAnswer ==
  /\ \E poll \in DOMAIN net.polls :
       LET status == StatusAnswer(poll.job)
           answered == net.polls (-) SetToBag({poll})
           got == [World([ui EXCEPT !.jobStatus = status]) EXCEPT !.net.polls = answered]
           cleared == IF poll.live THEN [got EXCEPT !.net.polling = FALSE] ELSE got
           kind == Field(status, "status", "")
       IN \/ \* the request fails
             WebStep([World(ui) EXCEPT !.net.polls = answered])
          \/ /\ kind = "downloading"
             /\ WebStep(got)
          \/ /\ kind = "separating"
             /\ WebStep(got)
          \/ /\ kind = "complete"
             /\ \E d \in {RecentItems, <<>>} :
                  WebStep([cleared EXCEPT !.ui.recent = d, !.net.timers = @ + 1,
                                          !.net.out = Append(@, "recent")])
          \/ /\ kind = "error"
             /\ WebStep([cleared EXCEPT !.ui = resetToBrowse(@)])
          \/ /\ kind = ""
             /\ WebStep(got)
  /\ UNCHANGED <<jobs, outsideWeb>>
\* the timer a "complete" answer set half a second before
TimerFire ==
  /\ net.timers > 0
  /\ WebStep([World([ui EXCEPT !.phase = "countdown"]) EXCEPT !.net.timers = @ - 1])
  /\ UNCHANGED <<jobs, outsideWeb>>
CountdownTick ==
  /\ ui.phase = "countdown"
  /\ WebStep(World(IF ui.cd <= 1 THEN [ui EXCEPT !.cd = 0, !.phase = "singing"]
                   ELSE [ui EXCEPT !.cd = @ - 1]))
  /\ UNCHANGED <<jobs, outsideWeb>>
singRecent ==
  /\ ui.phase \in {"browse", "post_song"}
  /\ LET shown == IF ui.phase = "browse" THEN ui.recent ELSE upNext(ui)
     IN \E i \in 1..Len(shown) :
          LET item == shown[i]
          IN WebStep(World([ui EXCEPT
               !.selectedVideo = Null, !.youtubeOverlayId = item.videoId,
               !.song = [id |-> item.videoId,
                         title |-> IF item.title # "" THEN item.title ELSE item.videoId,
                         videoFile |-> item.videoId],
               !.jobId = RecentJob,
               !.jobStatus = ReadyStatus(RecentJob, item.instrumentalUrl, item.vocalsUrl),
               !.phase = "countdown"]))
  /\ UNCHANGED <<jobs, outsideWeb>>
PickLocal ==
  /\ ui.phase = "browse"
  /\ \E i \in 1..Len(filtered(ui)) :
       LET s == filtered(ui)[i]
           picked == [ui EXCEPT !.song = s, !.youtubeOverlayId = ""]
       IN WebStep(World(
            IF Field(s, "instrumentalUrl", "") = "" THEN picked
            ELSE [picked EXCEPT !.selectedVideo = Null, !.jobId = LocalJob,
                                !.jobStatus = ReadyStatus(LocalJob, s.instrumentalUrl,
                                                          Field(s, "vocalsUrl", "")),
                                !.phase = "countdown"]))
  /\ UNCHANGED <<jobs, outsideWeb>>
toggle ==
  /\ ui.phase = "singing"
  /\ WebStep(World(
       IF ui.inst.paused
       THEN [ui EXCEPT !.inst.paused = FALSE, !.vox.paused = IF ui.vox.src # "" THEN FALSE ELSE @]
       ELSE [ui EXCEPT !.inst.paused = TRUE, !.vox.paused = TRUE]))
  /\ UNCHANGED <<jobs, outsideWeb>>
End ==
  /\ ui.phase = "singing"
  /\ WebStep(World(resetToBrowse(ui)))
  /\ UNCHANGED <<jobs, outsideWeb>>
SelectCandidate ==
  /\ ui.phase = "singing" /\ ui.youtubeOverlayId # "" /\ Len(ui.ytLyricCandidates) > 1
  /\ \E i \in 1..Len(ui.ytLyricCandidates) :
       WebStep(World([ui EXCEPT !.selectedLyricCandidateId = ui.ytLyricCandidates[i].id]))
  /\ UNCHANGED <<jobs, outsideWeb>>
\* a second of playback
Advance(a) == IF a.paused \/ a.time >= AudioDuration THEN a ELSE [a EXCEPT !.time = @ + 1]
Playback ==
  /\ ui.phase = "singing" /\ ~ui.inst.paused /\ ui.inst.time < AudioDuration
  /\ WebStep(World([ui EXCEPT !.inst = Advance(@), !.vox = Advance(@)]))
  /\ UNCHANGED <<jobs, outsideWeb>>
\* the instrumental element fires "ended"
onEnded ==
  /\ ui.phase = "singing" /\ ~ui.inst.paused /\ ui.inst.time = AudioDuration
  /\ WebStep(World([ui EXCEPT !.inst.paused = TRUE, !.inst.time = 0,
                              !.vox.paused = TRUE, !.vox.time = 0,
                              !.phase = "post_song"]))
  /\ UNCHANGED <<jobs, outsideWeb>>
LyricsAnswer ==
  /\ net.lyrics # ""
  /\ \/ \E data \in LyricsAnswers :
          WebStep([World([ui EXCEPT !.ytLyricCandidates = finalCandidates(data),
                                    !.selectedLyricCandidateId = preferredCandidateId(data),
                                    !.ytLyricsLoading = FALSE])
                     EXCEPT !.net.lyrics = ""])
     \/ \* the request fails
        WebStep([World([ui EXCEPT !.ytLyrics = <<>>, !.ytLyricsSource = "none",
                                  !.ytLyricsMode = "timed", !.ytPlainLyrics = "",
                                  !.ytLyricCandidates = <<>>,
                                  !.selectedLyricCandidateId = "",
                                  !.ytLyricsLoading = FALSE])
                   EXCEPT !.net.lyrics = ""])
  /\ UNCHANGED <<jobs, outsideWeb>>
Replay ==
  /\ ui.phase = "post_song"
  /\ WebStep(World([ui EXCEPT !.phase = "countdown"]))
  /\ UNCHANGED <<jobs, outsideWeb>>
SingAnother ==
  /\ ui.phase = "post_song"
  /\ WebStep(World(resetToBrowse(ui)))
  /\ UNCHANGED <<jobs, outsideWeb>>

WebNext ==
  \/ refreshRecent \/ TypeQuery \/ handleSearch \/ BackToBrowse
  \/ handleSelectVideo \/ PrepareAnswer \/ ServerStep \/ PollTick \/ PollAnswer
  \/ TimerFire \/ CountdownTick \/ singRecent \/ PickLocal \/ toggle \/ End
  \/ SelectCandidate \/ Playback \/ onEnded \/ LyricsAnswer \/ Replay \/ SingAnother

\* the two requests of the first render are answered (without a playlist there
\* is only less to pick)
WebLoaded ==
  /\ ui \in {[WebUiInit EXCEPT !.songs = LocalSongs, !.recent = items] :
               items \in {RecentItems, <<>>}}
  /\ net = WebNetInit /\ jobs = <<>>
WebInit == LyricsQuiet /\ SearchIdle /\ WebLoaded /\ ConcIdle /\ ProbeIdle
WebSpec == WebInit /\ [][WebNext]_vars

\* ------------------------------------------------- two calls for one video
\* Two getLyrics calls for the same video id share cache/<id>/.  A call runs
\* from one await to the next in one step; yt-dlp and whisper are processes of
\* their own, which write their files before the call that awaits them goes on.
\* remote is what the services hold for the video: the subtitles yt-dlp finds and
\* the answer of the catalog to the first query.

\* the synchronous tail of getLyrics: the "none" result, or score, pick, build
Settle(raw, expected) ==
  IF Len(raw) = 0 THEN [outcome |-> "returned", result |-> NoneResult]
  ELSE LET topCandidates == pickTopCandidates(ScoreAll(raw, expected), TopLimit)
       IN IF Len(topCandidates) = 0 THEN [outcome |-> "threw", result |-> Null]
          ELSE [outcome |-> "returned", result |-> BuildResult(VideoId, topCandidates)]
\* the call p ends with the candidates raw: writeCachedLyrics, return
Return(p, raw) ==
  LET end == Settle(raw, procs[p].expected)
  IN /\ procs' = [procs EXCEPT ![p].pc = "done", ![p].raw = raw, ![p].outcome = end.outcome,
                               ![p].result = end.result]
     /\ cacheDoc' = IF end.outcome = "returned" THEN JsonStringify(end.result) ELSE cacheDoc

\* getLyrics up to the await in fetchCaptionsViaYtDlp: metadata, cache check, and
\* the removal of every captions*.vtt
StartCall(p) ==
  /\ procs[p].pc = "idle"
  /\ LET meta == readMeta(metaFile)
         expected == detectExpectedScriptFromMeta(meta.title, meta.channelTitle)
         cached == readCachedLyrics(cacheDoc, VideoId)
     IN IF cacheUsable(cached, expected)
        THEN /\ procs' = [procs EXCEPT ![p].pc = "done", ![p].expected = expected,
                                       ![p].outcome = "returned", ![p].result = cached]
             /\ UNCHANGED captionFiles
        ELSE /\ procs' = [procs EXCEPT ![p].pc = "ytdlp", ![p].expected = expected]
             /\ captionFiles' = {}
  /\ UNCHANGED <<metaFile, cacheDoc, audioExists, whisperOut, remote, outsideConc>>
\* the yt-dlp process of p writes the subtitles it finds, or fails
YtDlpRun(p) ==
  /\ procs[p].pc = "ytdlp"
  /\ \/ /\ captionFiles' = captionFiles \cup remote.subs
        /\ procs' = [procs EXCEPT ![p].pc = "captions", ![p].wrote = @ \cup {"captions"}]
     \/ /\ procs' = [procs EXCEPT ![p].pc = "captions"]
        /\ UNCHANGED captionFiles
  /\ UNCHANGED <<metaFile, cacheDoc, audioExists, whisperOut, remote, outsideConc>>
\* after yt-dlp: pickBestSubtitleFile on the directory as it is now, parse, then the
\* catalog requests are sent
CaptionsContinue(p) ==
  /\ procs[p].pc = "captions"
  /\ LET subtitleFile == pickBestSubtitleFile(captionFiles, procs[p].expected)
         pushed == CaptionCandidates(parseVtt(subtitleFile.content), procs[p].expected)
     IN procs' = [procs EXCEPT ![p].pc = "catalog", ![p].raw = pushed,
                               ![p].found = IF subtitleFile # NoFile THEN @ \cup {"captions"}
                                            ELSE @]
  /\ UNCHANGED <<metaFile, cacheDoc, captionFiles, audioExists, whisperOut, remote, outsideConc>>
\* the start of runWhisperAndGetSegments once source.m4a exists: source.json is
\* removed and whisper started
StartWhisper(p, raw, stage) ==
  /\ procs' = [procs EXCEPT ![p].pc = "whisper", ![p].raw = raw, ![p].stage = stage]
  /\ whisperOut' = AbsentFile
\* after the catalog answers: the hits are pushed; then alignment, transcription or
\* the end
CatalogContinue(p) ==
  /\ procs[p].pc = "catalog"
  /\ LET meta == readMeta(metaFile)
         queries == extractArtistTrackCandidates(meta.title, meta.channelTitle)
         responses == Arr([i \in 1..Len(queries) |-> IF i = 1 THEN remote.answer ELSE NoAnswer])
         cc == fetchCatalogLyricsCandidates(metaFile, procs[p].expected, responses)
         raw == procs[p].raw \o CatalogCandidatesFrom(cc, 1)
         stage == AfterCatalog(raw)
     IN IF stage = "finalize" THEN Return(p, raw) /\ UNCHANGED whisperOut
        ELSE IF audioExists THEN StartWhisper(p, raw, stage) /\ UNCHANGED cacheDoc
        ELSE /\ procs' = [procs EXCEPT ![p].pc = "audio", ![p].raw = raw, ![p].stage = stage]
             /\ UNCHANGED <<cacheDoc, whisperOut>>
  /\ UNCHANGED <<metaFile, captionFiles, audioExists, remote, outsideConc>>
\* ensureAudioSource: the download of source.m4a ends, with or without the file
AudioContinue(p) ==
  /\ procs[p].pc = "audio"
  /\ \E downloaded \in BOOLEAN :
       /\ audioExists' = (audioExists \/ downloaded)
       /\ IF audioExists \/ downloaded
          THEN StartWhisper(p, procs[p].raw, procs[p].stage) /\ UNCHANGED cacheDoc
          ELSE Return(p, procs[p].raw) /\ UNCHANGED whisperOut
  /\ UNCHANGED <<metaFile, captionFiles, remote, outsideConc>>
\* the whisper process of p writes source.json, or fails
WhisperRun(p) ==
  /\ procs[p].pc = "whisper"
  /\ \/ /\ whisperOut' = WhisperOutput.en
        /\ procs' = [procs EXCEPT ![p].pc = "segments", ![p].ran = TRUE,
                                  ![p].wrote = @ \cup {"whisper"}]
     \/ /\ procs' = [procs EXCEPT ![p].pc = "segments", ![p].ran = FALSE]
        /\ UNCHANGED whisperOut
  /\ UNCHANGED <<metaFile, cacheDoc, captionFiles, audioExists, remote, outsideConc>>
\* after whisper: source.json as it is now is read, its segments align the plain
\* catalog lyrics or become the transcription; then the end
WhisperContinue(p) ==
  /\ procs[p].pc = "segments"
  /\ LET segments == IF procs[p].ran /\ whisperOut # AbsentFile
                     THEN parseWhisperSegments(whisperOut) ELSE <<>>
         pushed == IF procs[p].stage = "align"
                   THEN AlignedCandidates(PlainForAlign(procs[p].raw), segments)
                   ELSE SttCandidates(segments)
         read == [procs EXCEPT ![p].found = IF Len(segments) > 0 THEN @ \cup {"whisper"} ELSE @]
     IN LET end == Settle(procs[p].raw \o pushed, procs[p].expected)
        IN /\ procs' = [read EXCEPT ![p].pc = "done", ![p].raw = @ \o pushed,
                                    ![p].outcome = end.outcome, ![p].result = end.result]
           /\ cacheDoc' = IF end.outcome = "returned" THEN JsonStringify(end.result)
                          ELSE cacheDoc
  /\ UNCHANGED <<metaFile, captionFiles, audioExists, whisperOut, remote, outsideConc>>

ConcNext ==
  \E p \in Procs :
    \/ StartCall(p) \/ YtDlpRun(p) \/ CaptionsContinue(p) \/ CatalogContinue(p)
    \/ AudioContinue(p) \/ WhisperRun(p) \/ WhisperContinue(p)
\* cache/<id>/ holds meta.json, and source.m4a if a prepare job left it
ConcInit ==
  /\ metaFile = MetaJson(SampleName.titleEn, SampleName.channelEn)
  /\ cacheDoc = AbsentFile /\ captionFiles = {} /\ whisperOut = AbsentFile
  /\ audioExists \in BOOLEAN
  /\ CallIdle /\ SearchIdle /\ WebIdle /\ ProbeIdle
  /\ procs = [p \in Procs |-> ProcIdle]
  /\ remote \in {[subs |-> subs, answer |-> answer] :
                   subs \in {{}, {SubtitleFile.en}, {SubtitleFile.enAuto, SubtitleFile.ko}},
                   answer \in {NoAnswer,
                               [direct |-> CatalogTrack.plainEn, results |-> <<>>]}}
ConcSpec == ConcInit /\ [][ConcNext]_vars

\* -------------------------------------------------- pure functions on their own
\* One call of one function of services/lyrics.ts on arguments drawn from
\* small catalogues: probe holds the name of the function, its arguments and,
\* once the call has been made, what it returned.
MaxList == 3
SeqsUpTo(S, n) == UNION {[1..k -> S] : k \in 0..n}

Scored(source, mode, lines, plainLyrics, score) ==
  [id |-> <<source, score, "">>, label |-> <<"x">>, source |-> source, mode |-> mode,
   lines |-> lines, plainLyrics |-> plainLyrics, syncMethod |-> "none", score |-> score]
\* scored candidates: two whose text differs in case and punctuation only, two
\* without a letter or digit, one apart
ScoredSamples ==
  {Scored("captions", "timed", <<[t |-> 0, text |-> SampleText.en]>>, UNDEF, 90),
   Scored("catalog", "timed", <<[t |-> 0, text |-> <<"A", "b", "!", " ", "a", "b">>]>>, UNDEF, 80),
   Scored("catalog", "plain", <<>>, <<"#", "!">>, 70),
   Scored("stt", "timed", <<>>, UNDEF, 60),
   Scored("catalog", "plain", <<>>, SampleText.enB, 50)}
PickInputs ==
  {[fn |-> "pickTopCandidates", applied |-> FALSE, candidates |-> cs, limit |-> limit] :
     cs \in SeqsUpTo(ScoredSamples, MaxList), limit \in 0..MaxList}

SixLines(text) == Arr([i \in 1..6 |-> [t |-> 100 * i, text |-> text]])
\* what a candidate carries: nothing, one Latin line, six Hangul lines, plain text
Contents ==
  {[lines |-> <<>>, plainLyrics |-> UNDEF],
   [lines |-> <<[t |-> 0, text |-> SampleText.en]>>, plainLyrics |-> UNDEF],
   [lines |-> SixLines(SampleText.ko), plainLyrics |-> UNDEF],
   [lines |-> SixLines(SampleText.en), plainLyrics |-> UNDEF],
   [lines |-> <<>>, plainLyrics |-> SampleText.en]}
Unscored ==
  {[id |-> <<source, 0, "">>, label |-> <<"x">>, source |-> source, mode |-> mode,
    lines |-> content.lines, plainLyrics |-> content.plainLyrics, syncMethod |-> syncMethod] :
     source \in {"captions", "catalog", "catalog_aligned", "stt"}, mode \in {"timed", "plain"},
     syncMethod \in {"native", "ai", "none"}, content \in Contents}
ScoreInputs ==
  {[fn |-> "scoreLyricsCandidate", applied |-> FALSE, a |-> a, b |-> b, expectedScript |-> "latin"] :
     a \in Unscored, b \in Unscored}

\* runWhisperAndGetSegments in a directory with or without source.m4a and with or
\* without a source.json left by an earlier call
WhisperInputs ==
  {[fn |-> "runWhisperAndGetSegments", applied |-> FALSE, env |-> env, audio |-> audio,
    wout |-> wout] :
     env \in WhisperEnvs, audio \in BOOLEAN, wout \in {AbsentFile, WhisperOutput.ru}}

ApplyRunWhisperAndGetSegments ==
  /\ probe.fn = "runWhisperAndGetSegments" /\ ~probe.applied
  /\ probe' = [fn |-> probe.fn, applied |-> TRUE, env |-> probe.env, audio |-> probe.audio,
               wout |-> probe.wout,
               out |-> runWhisperAndGetSegments(probe.env, probe.audio, probe.wout)]
  /\ UNCHANGED outsideProbe
\* lyrics.json documents: a field is missing, holds a value the code knows, or
\* holds one it does not know ("?", or for a score a value that is no number)
FieldValues == [source |-> {"missing", "captions", "stt", "?"},
                mode |-> {"missing", "plain", "timed", "?"},
                syncMethod |-> {"missing", "native", "ai", "?"}]
WithField(d, key, v) == IF v = "missing" THEN d ELSE d @@ (key :> v)
WithProvenance(d, source, mode, sync) ==
  WithField(WithField(WithField(d, "source", source), "mode", mode), "syncMethod", sync)
OneLine == <<[t |-> 0, text |-> SampleText.en]>>
CandidateDocs ==
  LET full == [id |-> <<"captions", 0, "en">>, label |-> "Captions", lines |-> OneLine]
      provs == {WithProvenance(full, v, v, v) : v \in {"missing", "?"}}
                 \cup {WithProvenance(full, "stt", "plain", "ai")}
  IN provs \cup {c @@ [score |-> n] : c \in provs, n \in {NaN, 77}}
       \cup {[label |-> "Captions", lines |-> OneLine, score |-> 77],
             [id |-> <<"captions", 0, "en">>, lines |-> OneLine, score |-> 77],
             [id |-> <<"captions", 0, "en">>, label |-> "Captions", score |-> 77]}
CacheDocs ==
  LET withId == {[kind |-> "json"], [kind |-> "json", videoId |-> VideoId],
                 [kind |-> "json", videoId |-> "other"]}
      withLines == withId \cup {d @@ [lines |-> OneLine] : d \in withId}
      withProv == {WithProvenance(d, source, mode, sync) :
                     d \in withLines, source \in FieldValues.source,
                     mode \in FieldValues.mode, sync \in FieldValues.syncMethod}
      readable == [kind |-> "json", videoId |-> VideoId, lines |-> OneLine, source |-> "captions"]
  IN {AbsentFile, MalformedFile} \cup withProv
       \cup {readable @@ [candidates |-> cs] : cs \in SeqsUpTo(CandidateDocs, 2)}
ReadInputs == {[fn |-> "readCachedLyrics", applied |-> FALSE, doc |-> d] : d \in CacheDocs}

ApplyReadCachedLyrics ==
  /\ probe.fn = "readCachedLyrics" /\ ~probe.applied
  /\ probe' = [fn |-> probe.fn, applied |-> TRUE, doc |-> probe.doc,
               out |-> readCachedLyrics(probe.doc, VideoId)]
  /\ UNCHANGED outsideProbe

\* inputs of the producers of timed lines: times 0, 0.5 and 1.2 seconds apart
\* from each other, given in any order, and texts that repeat
ProbeTimes == {0, 50, 120, NaN}
ProbeTexts == {<<"a">>, <<"b">>}
VttInputs ==
  LET cues == {[start |-> t, text |-> x] : t \in ProbeTimes, x \in ProbeTexts}
                \cup {[start |-> 0, text |-> <<" ">>]}
  IN {[fn |-> "parseVtt", applied |-> FALSE, cues |-> c] : c \in SeqsUpTo(cues, MaxList)}
LrcInputs ==
  LET tagged == {[tags |-> g, text |-> x] :
                   g \in {<<0>>, <<50>>, <<120>>, <<NaN>>, <<120, 0>>}, x \in ProbeTexts}
                  \cup {[tags |-> <<>>, text |-> <<"a">>], [tags |-> <<0>>, text |-> <<" ">>]}
  IN {[fn |-> "parseLrc", applied |-> FALSE, lrc |-> c] : c \in SeqsUpTo(tagged, MaxList)}
WhisperJsonInputs ==
  LET segs == {[start |-> t, text |-> x] : t \in ProbeTimes \cup {0 - 50}, x \in ProbeTexts}
                \cup {[start |-> 0, text |-> <<" ">>]}
  IN {[fn |-> "parseWhisperJson", applied |-> FALSE,
       raw |-> [kind |-> "json", ok |-> ok, segments |-> c]] :
        c \in SeqsUpTo(segs, MaxList), ok \in BOOLEAN}
\* segments as parseWhisperSegments hands them over, every step seconds
SegsEvery(step, n) == Arr([i \in 1..n |-> [start |-> step * i, text |-> <<"a">>]])
AlignInputs ==
  {[fn |-> "alignPlainLyricsWithSegments", applied |-> FALSE, plainLyrics |-> p,
    segments |-> g] :
     p \in {CatalogTrack.plainKo.plainLyrics, CatalogTrack.plainEn.plainLyrics,
            CatalogTrack.sym.plainLyrics},
     g \in {parseWhisperSegments(WhisperOutput.en), parseWhisperSegments(WhisperOutput.ru),
            parseWhisperSegments(WhisperOutput.poor)}
            \cup {SegsEvery(step, n) : step \in {0, 10, 60}, n \in {MinAlignLines, 2 * MinAlignLines}}}

ApplyParseVtt ==
  /\ probe.fn = "parseVtt" /\ ~probe.applied
  /\ probe' = [fn |-> probe.fn, applied |-> TRUE, cues |-> probe.cues,
               out |-> parseVtt(probe.cues)]
  /\ UNCHANGED outsideProbe

ApplyParseLrc ==
  /\ probe.fn = "parseLrc" /\ ~probe.applied
  /\ probe' = [fn |-> probe.fn, applied |-> TRUE, lrc |-> probe.lrc,
               out |-> parseLrc(probe.lrc)]
  /\ UNCHANGED outsideProbe

ApplyParseWhisperJson ==
  /\ probe.fn = "parseWhisperJson" /\ ~probe.applied
  /\ probe' = [fn |-> probe.fn, applied |-> TRUE, raw |-> probe.raw,
               out |-> parseWhisperJson(probe.raw)]
  /\ UNCHANGED outsideProbe

ApplyAlignPlainLyricsWithSegments ==
  /\ probe.fn = "alignPlainLyricsWithSegments" /\ ~probe.applied
  /\ probe' = [fn |-> probe.fn, applied |-> TRUE, plainLyrics |-> probe.plainLyrics,
               segments |-> probe.segments,
               out |-> alignPlainLyricsWithSegments(probe.plainLyrics, probe.segments)]
  /\ UNCHANGED outsideProbe

RECURSIVE DigitsOf(_)
\* the decimal digits of n >= 0
DigitsOf(n) ==
  IF n < 10 THEN <<DecimalDigits[n + 1]>>
  ELSE Append(DigitsOf(n \div 10), DecimalDigits[(n % 10) + 1])
TwoDigits(n) == IF n < 10 THEN <<"0">> \o DigitsOf(n) ELSE DigitsOf(n)
\* one [mm:ss.hh] tag followed by the text for each line, the lines joined by
\* newlines; t is in hundredths of a second
serializeLrc(lines) ==
  Flatten(Arr([i \in 1..Len(lines) |->
                 <<"[">> \o TwoDigits(lines[i].t \div 6000) \o <<":">>
                   \o TwoDigits((lines[i].t \div 100) % 60) \o <<".">>
                   \o TwoDigits(lines[i].t % 100) \o <<"]">> \o lines[i].text]),
          <<"\n">>)

\* timed lines handed to the serializer: texts with and without brackets
RoundTripTexts ==
  {<<"a">>, <<"b", " ", "a">>, <<"[", "x", "]">>, <<"a", " ", "[", "x", "]">>, <<"a", "]", "[">>,
   <<" ", "a">>}
RoundTripInputs ==
  LET timed == {[t |-> t, text |-> x] : t \in {0, 50, 6105}, x \in RoundTripTexts}
  IN {[fn |-> "parseLrc(serializeLrc)", applied |-> FALSE, lines |-> ls] :
        ls \in SeqsUpTo(timed, MaxList)}

ApplySerializeThenParseLrc ==
  /\ probe.fn = "parseLrc(serializeLrc)" /\ ~probe.applied
  /\ probe' = [fn |-> probe.fn, applied |-> TRUE, lines |-> probe.lines,
               written |-> serializeLrc(probe.lines),
               out |-> parseLrc(LrcDocument(serializeLrc(probe.lines)))]
  /\ UNCHANGED outsideProbe

\* texts by the number of characters of each family they hold
MaxLatin == 5
MaxHangul == 4
MaxKana == 2
MaxCyrillic == 2
Repeat(ch, n) == [i \in 1..n |-> ch]
FamilyCounts ==
  [latin : 0..MaxLatin, hangul : 0..MaxHangul, hiragana : 0..MaxKana, katakana : 0..1,
   han : 0..1, cyrillic : 0..MaxCyrillic]
TextOfCounts(n) ==
  Repeat("h", n.hangul) \o Repeat("A", n.latin \div 2) \o <<" ", "1">> \o Repeat("x", n.han)
    \o Repeat("c", n.cyrillic) \o Repeat("i", n.hiragana) \o <<"#">>
    \o Repeat("b", n.latin - (n.latin \div 2)) \o Repeat("k", n.katakana)
ScriptTypes == {"unknown", "mixed", "korean", "japanese", "cyrillic", "latin"}
DetectInputs ==
  {[fn |-> "detectScript", applied |-> FALSE, counts |-> n, text |-> TextOfCounts(n)] :
     n \in FamilyCounts}
CompatibleInputs ==
  {[fn |-> "isScriptCompatible", applied |-> FALSE, counts |-> n, text |-> TextOfCounts(n),
    expected |-> e] : n \in FamilyCounts, e \in ScriptTypes}

ApplyDetectScript ==
  /\ probe.fn = "detectScript" /\ ~probe.applied
  /\ probe' = [fn |-> probe.fn, applied |-> TRUE, counts |-> probe.counts,
               text |-> probe.text, out |-> detectScript(probe.text)]
  /\ UNCHANGED outsideProbe

ApplyIsScriptCompatible ==
  /\ probe.fn = "isScriptCompatible" /\ ~probe.applied
  /\ probe' = [fn |-> probe.fn, applied |-> TRUE, counts |-> probe.counts,
               text |-> probe.text, expected |-> probe.expected,
               out |-> isScriptCompatible(probe.text, probe.expected)]
  /\ UNCHANGED outsideProbe

\* catalog answers for the probe: tracks of one song under several names, with
\* plain or synced lyrics, one in another script and one of symbols only
PlainHit(name, artist, plain) == Track(name, artist, <<>>, plain)
ProbeHits ==
  [exact |-> PlainHit(<<"a", "b">>, <<"B", "a">>, <<"a", "b">>),
   upper |-> PlainHit(<<"A", "b">>, <<"B", "a">>, <<"A", "b", "!">>),
   synced |-> Track(<<"a", "b">>, <<"B", "a">>, <<[tags |-> <<0>>, text |-> <<"b", "a">>]>>, <<>>),
   other |-> PlainHit(<<"a", "b">>, <<"a">>, <<"a", "a">>),
   live |-> PlainHit(<<"a", "b", " ", "a">>, <<"B", "a">>, <<"b", "b">>),
   cover |-> PlainHit(<<"b">>, <<"B", "a">>, <<"a", "a", "b">>),
   remix |-> PlainHit(<<"b">>, <<>>, <<"a", "b", "b">>),
   demo |-> PlainHit(<<>>, <<>>, <<"b", "b", "a">>),
   ru |-> PlainHit(<<"a", "b">>, <<"B", "a">>, <<"c", "c", "c">>),
   sym |-> PlainHit(<<"a", "b">>, <<>>, <<"#", "!">>),
   empty |-> PlainHit(<<"a", "b">>, <<"B", "a">>, <<>>)]
ProbeAnswers ==
  LET h == ProbeHits
  IN {[direct |-> d, results |-> r] :
        d \in {NoTrack, h.exact, h.ru},
        r \in {<<>>, <<h.upper, h.exact, h.other>>, <<h.sym, h.ru, h.empty>>,
               <<h.demo, h.remix, h.cover, h.live, h.other, h.synced, h.sym, h.ru>>}}
CatalogInputs ==
  LET metas == {MetaJson(SampleName.titleDash, SampleName.channelEn),
                MetaJson(SampleName.titleEn, <<>>)}
      nq(meta) == Len(extractArtistTrackCandidates(readMeta(meta).title,
                                                   readMeta(meta).channelTitle))
  IN UNION {{[fn |-> "fetchCatalogLyricsCandidates", applied |-> FALSE, metaFile |-> meta,
              expectedScript |-> e, responses |-> rs] :
               e \in {"latin", "unknown", "cyrillic"}, rs \in [1..nq(meta) -> ProbeAnswers]} :
            meta \in metas}

ApplyFetchCatalogLyricsCandidates ==
  /\ probe.fn = "fetchCatalogLyricsCandidates" /\ ~probe.applied
  /\ probe' = [fn |-> probe.fn, applied |-> TRUE, metaFile |-> probe.metaFile,
               expectedScript |-> probe.expectedScript, responses |-> probe.responses,
               out |-> fetchCatalogLyricsCandidates(probe.metaFile, probe.expectedScript,
                                                    probe.responses)]
  /\ UNCHANGED outsideProbe

\* caption files yt-dlp can leave, ord being the place of the name under localeCompare
CaptionFile(name, lang, auto, ord) ==
  [name |-> name, lang |-> lang, auto |-> auto, ord |-> ord, content |-> <<>>]
ProbeCaptionFiles ==
  {CaptionFile("captions.de.vtt", "de", FALSE, 1),
   CaptionFile("captions.en-orig.vtt", "en", TRUE, 2),
   CaptionFile("captions.en.vtt", "en", FALSE, 3),
   CaptionFile("captions.fr-orig.vtt", "fr", TRUE, 4),
   CaptionFile("captions.ja.vtt", "ja", FALSE, 5),
   CaptionFile("captions.ko-orig.vtt", "ko", TRUE, 6),
   CaptionFile("captions.ko.vtt", "ko", FALSE, 7),
   CaptionFile("captions.ru.vtt", "ru", FALSE, 8),
   CaptionFile("captions.vtt", "vtt", FALSE, 9)}
SubtitleInputs ==
  {[fn |-> "pickBestSubtitleFile", applied |-> FALSE, files |-> fs, expectedScript |-> e] :
     fs \in SUBSET ProbeCaptionFiles, e \in ScriptTypes}

ApplyPickBestSubtitleFile ==
  /\ probe.fn = "pickBestSubtitleFile" /\ ~probe.applied
  /\ probe' = [fn |-> probe.fn, applied |-> TRUE, files |-> probe.files,
               expectedScript |-> probe.expectedScript,
               out |-> pickBestSubtitleFile(probe.files, probe.expectedScript)]
  /\ UNCHANGED outsideProbe

ApplyPickTopCandidates ==
  /\ probe.fn = "pickTopCandidates" /\ ~probe.applied
  /\ probe' = [fn |-> probe.fn, applied |-> TRUE, candidates |-> probe.candidates,
               limit |-> probe.limit, out |-> pickTopCandidates(probe.candidates, probe.limit)]
  /\ UNCHANGED outsideProbe
\* the scores of two candidates under one expected script
ApplyScoreLyricsCandidate ==
  /\ probe.fn = "scoreLyricsCandidate" /\ ~probe.applied
  /\ probe' = [fn |-> probe.fn, applied |-> TRUE, a |-> probe.a, b |-> probe.b,
               expectedScript |-> probe.expectedScript,
               out |-> <<scoreLyricsCandidate(probe.a, probe.expectedScript),
                         scoreLyricsCandidate(probe.b, probe.expectedScript)>>]
  /\ UNCHANGED outsideProbe

ProbeInputs ==
  PickInputs \cup ScoreInputs \cup WhisperInputs \cup ReadInputs
    \cup VttInputs \cup LrcInputs \cup WhisperJsonInputs \cup AlignInputs \cup RoundTripInputs
    \cup DetectInputs \cup CompatibleInputs \cup CatalogInputs \cup SubtitleInputs
ProbeNext ==
  \/ ApplyPickTopCandidates \/ ApplyScoreLyricsCandidate \/ ApplyRunWhisperAndGetSegments
  \/ ApplyReadCachedLyrics
  \/ ApplyParseVtt \/ ApplyParseLrc \/ ApplyParseWhisperJson
  \/ ApplyAlignPlainLyricsWithSegments
  \/ ApplySerializeThenParseLrc
  \/ ApplyDetectScript \/ ApplyIsScriptCompatible
  \/ ApplyFetchCatalogLyricsCandidates
  \/ ApplyPickBestSubtitleFile
ProbeInit == LyricsQuiet /\ SearchIdle /\ WebIdle /\ ConcIdle /\ probe \in ProbeInputs
ProbeSpec == ProbeInit /\ [][ProbeNext]_vars

\* ------------------------------------------------------------ properties
Returned == outcome = "returned"
\* the last call ran the pipeline and returned
Fresh == Returned /\ ~hit
CandidateSet(r) == {r.candidates[i] : i \in 1..Len(r.candidates)}
CandidateText(c) == AllText(c.lines, c.plainLyrics)
ExpectedNow == LET meta == readMeta(metaFile)
               IN detectExpectedScriptFromMeta(meta.title, meta.channelTitle)
\* a step that starts a getLyrics call
CallStep == callNo' = callNo + 1

\* C1: getLyrics never throws, whatever the collaborators hand back.
NeverThrows == outcome # "threw"

\* C2: a pipeline run in which no source handed back non-empty script-compatible
\* text returns exactly the "none" result.
NoCompatibleSourceGivesNone == (Fresh /\ seen = {}) => result = NoneResult

\* C3: in a result of a pipeline run with a source other than none, the text of
\* every surfaced candidate is compatible with the expected script.
SurfacedCandidatesCompatible ==
  (Fresh /\ result.source # "none") =>
    \A c \in CandidateSet(result) : isScriptCompatible(CandidateText(c), expectedScript)

\* C4: in every returned result selectedCandidateId is "none" exactly when no
\* candidate survived, and otherwise names a listed candidate whose score is
\* at least that of every listed candidate.
SelectedIsTopScored ==
  Returned =>
    /\ result.selectedCandidateId = NoneId <=> result.candidates = <<NoneCandidate>>
    /\ ~hit => (result.selectedCandidateId = NoneId <=> rawCandidates = <<>>)
    /\ \E c \in CandidateSet(result) :
         /\ c.id = result.selectedCandidateId
         /\ \A d \in CandidateSet(result) : c.score >= d.score

SelectedIsTopScoredSeen ==
  /\ Fresh
  /\ Len(result.candidates) >= 2
  /\ result.selectedCandidateId # rawCandidates[1].id
  /\ result.candidates[1].score > result.candidates[2].score

\* C5: in every returned result the top-level source, mode, lines, plainLyrics
\* and syncMethod are those of the listed candidate named by selectedCandidateId.
TopLevelMirrorsSelected ==
  Returned =>
    \E c \in CandidateSet(result) :
      /\ c.id = result.selectedCandidateId
      /\ c.source = result.source
      /\ c.mode = result.mode
      /\ c.lines = result.lines
      /\ c.plainLyrics = result.plainLyrics
      /\ c.syncMethod = result.syncMethod

TopLevelMirrorsSelectedSeen ==
  /\ Fresh
  /\ Len(result.candidates) >= 2
  /\ result.source = "catalog"
  /\ \E c \in CandidateSet(result) : c.id # result.selectedCandidateId /\ c.lines # result.lines

\* C6: every returned result lists at least one and at most three candidates.
CandidatesBetweenOneAndThree == Returned => Len(result.candidates) \in 1..TopLimit

CandidatesBetweenOneAndThreeSeen ==
  /\ Fresh
  /\ Len(rawCandidates) > TopLimit
  /\ Len(result.candidates) = TopLimit

\* C7 as stated: every candidate of a returned result, the placeholder of the
\* "none" result included, has lines when timed, and has plainLyrics and no
\* lines when plain.
ModeShape(c) ==
  /\ c.mode = "timed" => Len(c.lines) > 0
  /\ c.mode = "plain" => (OrEmpty(c.plainLyrics) # <<>> /\ c.lines = <<>>)
EveryCandidateModeShaped == Returned => \A c \in CandidateSet(result) : ModeShape(c)

\* C7: every candidate of a returned result other than the placeholder of the
\* "none" result has lines when timed, and has plainLyrics and no lines when
\* plain; the placeholder is plain with no lines and empty plainLyrics.
CandidateModeShapedButPlaceholder ==
  Returned =>
    \A c \in CandidateSet(result) :
      IF c.id = NoneId
      THEN c.mode = "plain" /\ c.lines = <<>> /\ c.plainLyrics = <<>>
      ELSE ModeShape(c)

CandidateModeShapedSeen ==
  /\ Fresh
  /\ \E c \in CandidateSet(result) : c.mode = "timed" /\ c.source = "captions"
  /\ \E c \in CandidateSet(result) : c.mode = "plain" /\ c.source = "catalog"

\* C8: a call that finds a persisted result compatible with the expected script
\* and holding a candidate returns that result, runs no stage, calls no
\* external source and leaves the cache document as it is.
CacheReuse ==
  [][(/\ CallStep
      /\ persisted # Null
      /\ hasCompatibleLyricsPayload(persisted, ExpectedNow)
      /\ Len(persisted.candidates) > 0)
     => (/\ result' = persisted
         /\ outcome' = "returned"
         /\ pc' = "done"
         /\ calls' = NoCalls
         /\ UNCHANGED <<cacheDoc, captionFiles, audioExists, whisperOut>>)]_vars

CacheReuseSeen ==
  /\ hit
  /\ callNo >= 2
  /\ result = persisted
  /\ result.source # "none"
  /\ Len(result.candidates) >= 2
  /\ calls = NoCalls

\* C9: a call returns the cached result only if it is compatible with the
\* expected script derived from the current metadata and holds a candidate;
\* in every other case the call starts the pipeline at its first stage with no
\* candidates.
CacheOnlyWhenUsable ==
  [][CallStep =>
       LET cached == readCachedLyrics(cacheDoc, VideoId)
           usable == /\ cached # Null
                     /\ hasCompatibleLyricsPayload(cached, ExpectedNow)
                     /\ Len(cached.candidates) > 0
       IN /\ hit' => usable
          /\ ~usable => (/\ ~hit'
                         /\ outcome' = "running"
                         /\ pc' = "captions"
                         /\ rawCandidates' = <<>>
                         /\ calls' = NoCalls)]_vars

CacheOnlyWhenUsableSeen ==
  /\ callNo >= 2
  /\ pc = "captions"
  /\ persisted # Null
  /\ ~hasCompatibleLyricsPayload(persisted, expectedScript)

\* C10 as stated: when the captions stage yields non-empty compatible lines the
\* run returns the captions candidate, whatever the catalog adds.
CaptionsAlwaysSelected ==
  (Fresh /\ "captions" \in seen) =>
    (result.source = "captions" /\ result.selectedCandidateId = CaptionsId)

Density(c) == Min(16, Len(c.lines) \div 6)
\* C10: when the captions stage yields non-empty compatible lines, the run
\* returns the captions candidate provided that the captions candidate is the
\* only candidate or its text has a letter or a digit, and that no timed catalog
\* candidate has a density bonus more than 6 above that of the captions.
CaptionsSelectedUnlessOutscored ==
  (Fresh /\ "captions" \in seen) =>
    LET cap == rawCandidates[1]
    IN ((/\ Len(rawCandidates) = 1
            \/ normalizedLyricsFingerprint(cap.mode, cap.lines, OrEmpty(cap.plainLyrics)) # <<>>
         /\ \A i \in 2..Len(rawCandidates) :
              (rawCandidates[i].source = "catalog" /\ rawCandidates[i].mode = "timed")
                => Density(rawCandidates[i]) <= Density(cap) + 6)
        => (result.source = "captions" /\ result.selectedCandidateId = CaptionsId))

CaptionsSelectedSeen ==
  /\ Fresh
  /\ "captions" \in seen
  /\ \E i \in 2..Len(rawCandidates) :
       rawCandidates[i].source = "catalog" /\ rawCandidates[i].mode = "timed"
  /\ result.selectedCandidateId = CaptionsId

\* C11: every answer of the lyrics endpoint to a request with a videoId has
\* status 200 and the shape of a lyrics result; when getLyrics threw, the body
\* is the "none" result as the pipeline produces it.
LyricsShape(body) ==
  /\ {"videoId", "source", "mode", "lines", "syncMethod", "selectedCandidateId", "candidates"}
       \subseteq DOMAIN body
  /\ body.source \in {"captions", "catalog", "catalog_aligned", "stt", "none"}
  /\ body.mode \in {"timed", "plain"}
  /\ Len(body.candidates) >= 1
EndpointAlwaysAnswers ==
  (response # Null /\ response.query # "") =>
    /\ response.status = 200
    /\ LyricsShape(response.body)
    /\ outcome = "threw" => response.body = JsonStringify(NoneResult)

EndpointAnsweredAfterThrow ==
  /\ outcome = "threw"
  /\ response # Null
  /\ response.query = VideoId
  /\ response.status = 200
  /\ response.body.source = "none"

\* C13: after a call that ran the pipeline and returned, the cache document is
\* the returned result and reads back as it, the call wrote it once, and the
\* document changes only in the step that returns, as one whole document.
PersistedIsReturned ==
  /\ [](Fresh => (/\ cacheDoc = JsonStringify(result)
                  /\ readCachedLyrics(cacheDoc, VideoId) = result
                  /\ calls.cacheWrite = 1))
  /\ [][cacheDoc' # cacheDoc =>
          (pc = "finalize" /\ outcome' = "returned" /\ cacheDoc' = JsonStringify(result'))]_vars

PersistedIsReturnedSeen ==
  /\ Fresh
  /\ callNo >= 2
  /\ result.source \in {"captions", "catalog"}
  /\ readCachedLyrics(cacheDoc, VideoId) = result
  /\ calls.cacheWrite = 1

\* C14: a call that finds no supplied title or channel (meta.json missing,
\* unparsable, without the fields, or written for a prepare request that omitted
\* them) works with the expected script unknown.
UnsuppliedMetaIsUnknown == [][(CallStep /\ ~supplied) => expectedScript' = "unknown"]_vars

HasSource(cands, source) == \E i \in 1..Len(cands) : cands[i].source = source
HasPlainCatalog(cands) ==
  \E i \in 1..Len(cands) : cands[i].source = "catalog" /\ cands[i].mode = "plain"

\* C15 as stated: in a run whose captions stage produced a candidate, neither
\* the transcription tool nor the audio download is invoked.
CaptionsStopTranscription ==
  (pc # "idle" /\ HasSource(rawCandidates, "captions")) =>
    (calls.whisper = 0 /\ calls.audioDl = 0)

\* C15: in a run whose captions stage produced a candidate and whose catalog
\* stage added no plain candidate, neither the transcription tool nor the audio
\* download is invoked.
CaptionsWithoutPlainStopTranscription ==
  (pc # "idle" /\ HasSource(rawCandidates, "captions") /\ ~HasPlainCatalog(rawCandidates)) =>
    (calls.whisper = 0 /\ calls.audioDl = 0)

CaptionsWithoutPlainSeen ==
  /\ Fresh
  /\ HasSource(rawCandidates, "captions")
  /\ HasSource(rawCandidates, "catalog")
  /\ ~HasPlainCatalog(rawCandidates)
  /\ calls.whisper = 0

\* C19: the transcription fallback runs only when the earlier stages left no
\* raw candidate, so a transcription candidate is always the only candidate, in
\* the raw list and in every returned result.
SttOnlyWhenNothingElse ==
  /\ [](/\ HasSource(rawCandidates, "stt") => Len(rawCandidates) = 1
        /\ (Returned /\ HasSource(result.candidates, "stt")) => Len(result.candidates) = 1)
  /\ [][(pc = "stt" \/ pc' = "stt") => rawCandidates = <<>>]_vars

SttOnlyWhenNothingElseSeen ==
  /\ Fresh
  /\ result.source = "stt"
  /\ Len(result.candidates) = 1
  /\ calls.whisper = 1

StageRank(p) ==
  IF p = "captions" THEN 1 ELSE IF p = "catalog" THEN 2 ELSE IF p = "align" THEN 3
  ELSE IF p = "stt" THEN 4 ELSE IF p = "finalize" THEN 5 ELSE 6
\* C20: within one request the stages only move forward, each external call is
\* made in its own stage (captions, catalog, then the audio download and the
\* transcription), and the caption download, the audio download and the
\* transcription tool are each invoked at most once.
StagesForwardCallsOnce ==
  /\ [](calls.captionDl <= 1 /\ calls.audioDl <= 1 /\ calls.whisper <= 1)
  /\ [][/\ (pc \notin {"idle", "done"} /\ pc' # pc) => StageRank(pc') > StageRank(pc)
        /\ (~CallStep /\ calls'.captionDl # calls.captionDl) => pc = "captions"
        /\ (~CallStep /\ calls'.catalogReq # calls.catalogReq) => pc = "catalog"
        /\ (~CallStep /\ (calls'.audioDl # calls.audioDl \/ calls'.whisper # calls.whisper))
             => pc \in {"align", "stt"}]_vars

StagesForwardCallsOnceSeen ==
  /\ Fresh
  /\ calls.captionDl = 1
  /\ calls.audioDl = 1
  /\ calls.whisper = 1
  /\ whisperOut = AbsentFile
  /\ result = NoneResult

\* C16: when the API answered, the list searchYouTube returns is a permutation
\* of the videos built from the answer, ordered by singing-readiness score
\* descending, videos of equal score in their API order.
ArePermutation(out, in) ==
  /\ Len(out) = Len(in)
  /\ \E p \in [1..Len(in) -> 1..Len(in)] :
       /\ \A i, j \in 1..Len(in) : i # j => p[i] # p[j]
       /\ \A i \in 1..Len(in) : out[i] = in[p[i]]
RankingIsStablePermutation ==
  searchItems.ok =>
    LET mapped == MapItems(searchItems.items, searchItems.details)
        n == Len(mapped)
    IN /\ ArePermutation(searchResult, mapped)
       /\ \A i \in 1..(n - 1) :
            scoreSingingReadiness(searchResult[i]) >= scoreSingingReadiness(searchResult[i + 1])
       /\ \A i, j \in 1..n :
            (i < j /\ scoreSingingReadiness(mapped[i]) = scoreSingingReadiness(mapped[j])
                   /\ mapped[i] # mapped[j])
              => \E a, b \in 1..n : a < b /\ searchResult[a] = mapped[i] /\ searchResult[b] = mapped[j]
                                    /\ \A c \in 1..(a - 1) : searchResult[c] # mapped[i]

RankingReorderedSeen ==
  /\ searchItems.ok
  /\ Len(searchResult) = 3
  /\ searchResult # MapItems(searchItems.items, searchItems.details)
  /\ scoreSingingReadiness(searchResult[2]) = scoreSingingReadiness(searchResult[3])
  /\ searchResult[2] # searchResult[3]

\* C17: post_song is entered only from singing and only by the ended event of the
\* instrumental element; post_song is left only for browse or countdown; and
\* countdown leads to singing, of which this states the weaker half: countdown is
\* left for no phase but singing.
PostSongFlow ==
  /\ [][(ui.phase # "post_song" /\ ui'.phase = "post_song")
          => (ui.phase = "singing" /\ onEnded)]_vars
  /\ [][(ui.phase = "post_song" /\ ui'.phase # "post_song")
          => ui'.phase \in {"browse", "countdown"}]_vars
  /\ [][(ui.phase = "countdown" /\ ui'.phase # "countdown") => ui'.phase = "singing"]_vars

\* C18: choosing a lyric candidate while singing changes only the choice and the
\* lyric display (lines, source, mode, plain text, active index); phase, song,
\* job status, both audio elements with their sources and positions, and all
\* requests under way stay as they are, and the step sends no request.
LyricDisplay ==
  {"selectedLyricCandidateId", "ytLyrics", "ytLyricsSource", "ytLyricsMode", "ytPlainLyrics",
   "active"}
SelectionChangesLyricsOnly ==
  [][SelectCandidate =>
       /\ \A f \in DOMAIN ui \ LyricDisplay : ui'[f] = ui[f]
       /\ net'.out = <<>>
       /\ [net' EXCEPT !.out = <<>>] = [net EXCEPT !.out = <<>>]
       /\ jobs' = jobs]_vars
\* the second candidate was chosen and is on display while the position has moved on
SelectionChangedLyricsSeen ==
  /\ ui.phase = "singing" /\ Len(ui.ytLyricCandidates) > 1
  /\ ui.selectedLyricCandidateId = ui.ytLyricCandidates[2].id
  /\ ui.ytLyricsSource = ui.ytLyricCandidates[2].source
  /\ ui.ytLyrics = ui.ytLyricCandidates[2].lines
  /\ ui.ytLyrics # ui.ytLyricCandidates[1].lines
  /\ ui.inst.time > 0 /\ ~ui.inst.paused

\* C12: when two getLyrics calls for one video run concurrently, neither throws,
\* each finds the output its own yt-dlp and whisper runs wrote (subtitles that
\* pickBestSubtitleFile accepts, a transcription with segments), and once both
\* have returned the cache document is the result of one of them.
ConcurrentCallsEquallyValid ==
  /\ \A p \in Procs :
        /\ procs[p].outcome # "threw"
        /\ (/\ procs[p].pc \in {"catalog", "audio", "whisper", "segments", "done"}
            /\ "captions" \in procs[p].wrote
            /\ pickBestSubtitleFile(remote.subs, procs[p].expected) # NoFile)
             => "captions" \in procs[p].found
        /\ (procs[p].pc = "done" /\ "whisper" \in procs[p].wrote)
             => "whisper" \in procs[p].found
  /\ (\A p \in Procs : procs[p].pc = "done")
       => \E p \in Procs : cacheDoc = JsonStringify(procs[p].result)

\* C21: every request ends by returning a result, and the failure or timeout of
\* an external call does not end it: whatever the call of a stage handed back,
\* the stage is followed by the next one (captions by the catalog, the catalog by
\* alignment, transcription or the end, these by the end), and the call that has
\* ended has returned.
EveryRequestReturns ==
  /\ [][/\ (pc = "captions" /\ pc' # pc) => pc' = "catalog"
        /\ (pc = "catalog" /\ pc' # pc) => pc' \in {"align", "stt", "finalize"}
        /\ (pc \in {"align", "stt"} /\ pc' # pc) => pc' = "finalize"
        /\ (pc = "finalize" /\ pc' # pc) => pc' = "done"]_vars
  /\ [](pc = "done" => outcome = "returned")

\* the Align step of a call without captions whose catalog hits are all plain, in
\* which whisper ran and left at least four segments
AlignedFromPlain ==
  /\ pc = "align" /\ pc' = "finalize"
  /\ \A i \in 1..Len(rawCandidates) :
        rawCandidates[i].source = "catalog" /\ rawCandidates[i].mode = "plain"
  /\ calls'.whisper = calls.whisper + 1
  /\ whisperOut' # AbsentFile
  /\ Len(parseWhisperSegments(whisperOut')) >= MinAlignLines
PlainLines(c) == splitPlainLyrics(OrEmpty(c.plainLyrics))
\* the candidates pushed as the alignment of the plain candidate c
AlignedOf(c, raw) ==
  {a \in {raw[i] : i \in 1..Len(raw)} :
     a.source = "catalog_aligned" /\ a.id = <<c.id[1], c.id[2], "_aligned">>}
NonDecreasing(lines) == \A i \in 1..(Len(lines) - 1) : lines[i].t <= lines[i + 1].t
NoRepeatedLine(texts) == \A i \in 1..(Len(texts) - 1) : texts[i] # texts[i + 1]

\* What C22 says: with no captions, plain catalog lyrics only and at least four
\* segments, every plain candidate taken for alignment gets a catalog_aligned
\* candidate with as many timed lines as the plain text has lines, in
\* non-decreasing time.
PlainCatalogAlwaysAligned ==
  [][AlignedFromPlain =>
       \A i \in 1..Len(PlainForAlign(rawCandidates)) :
         LET c == PlainForAlign(rawCandidates)[i]
         IN \E a \in AlignedOf(c, rawCandidates') :
              Len(a.lines) = Len(PlainLines(c)) /\ NonDecreasing(a.lines)]_vars

\* C22: in that case every plain candidate taken for alignment whose text has at
\* least four lyric lines gets a catalog_aligned candidate in non-decreasing
\* time; it has at most as many timed lines as the plain text has lines, and
\* exactly its lines when no line repeats the line before it.
PlainCatalogAlignedFromFourLines ==
  [][AlignedFromPlain =>
       \A i \in 1..Len(PlainForAlign(rawCandidates)) :
         LET c == PlainForAlign(rawCandidates)[i]
         IN Len(PlainLines(c)) >= MinAlignLines =>
              \E a \in AlignedOf(c, rawCandidates') :
                /\ NonDecreasing(a.lines)
                /\ Len(a.lines) <= Len(PlainLines(c))
                /\ NoRepeatedLine(PlainLines(c)) =>
                      Arr([k \in 1..Len(a.lines) |-> a.lines[k].text]) = PlainLines(c)]_vars

\* a call returned after aligning a six-line plain text of which one line was
\* dropped as a repetition, next to a four-line text aligned whole
PlainCatalogAlignedSeen ==
  /\ Fresh
  /\ calls.whisper = 1
  /\ \E i, j \in 1..Len(rawCandidates) :
        /\ rawCandidates[i].source = "catalog_aligned"
        /\ Len(rawCandidates[i].lines) = 5
        /\ rawCandidates[j].source = "catalog_aligned"
        /\ Len(rawCandidates[j].lines) = MinAlignLines

Fingerprint(c) == normalizedLyricsFingerprint(c.mode, c.lines, OrEmpty(c.plainLyrics))
\* C23: no two candidates of a returned result have the same fingerprint, and
\* of the raw candidates of a run that share a fingerprint with a candidate of its
\* result, none scores higher than that candidate.
ResultFingerprintsDistinct ==
  /\ Returned =>
       \A i, j \in 1..Len(result.candidates) :
         i # j => Fingerprint(result.candidates[i]) # Fingerprint(result.candidates[j])
  /\ Fresh =>
       \A i \in 1..Len(result.candidates), k \in 1..Len(rawCandidates) :
         Fingerprint(rawCandidates[k]) = Fingerprint(result.candidates[i])
           => scoreLyricsCandidate(rawCandidates[k], expectedScript) <= result.candidates[i].score

\* a run returned two candidates after two of its raw candidates with one
\* fingerprint and different text collapsed
ResultFingerprintsDistinctSeen ==
  /\ Fresh
  /\ Len(result.candidates) = 2
  /\ \E i, k \in 1..Len(rawCandidates) :
        /\ i < k
        /\ Fingerprint(rawCandidates[i]) = Fingerprint(rawCandidates[k])
        /\ AllText(rawCandidates[i].lines, rawCandidates[i].plainLyrics)
             # AllText(rawCandidates[k].lines, rawCandidates[k].plainLyrics)

\* the candidates a call of pickTopCandidates returned
Picked == {probe.out[i] : i \in 1..Len(probe.out)}
\* C24: pickTopCandidates never returns a candidate whose fingerprint is empty,
\* whatever the list (a single candidate included) and the limit.
PickedFingerprintsNonEmpty ==
  (probe.fn = "pickTopCandidates" /\ probe.applied) => \A c \in Picked : Fingerprint(c) # <<>>

ProvenanceRank(c) ==
  IF c.source = "captions" THEN 4 ELSE IF c.source = "catalog" THEN 3
  ELSE IF c.source = "catalog_aligned" THEN 2 ELSE 1
ScriptBonus(c, expected) ==
  AllText(c.lines, c.plainLyrics) # <<>>
    /\ isScriptCompatible(AllText(c.lines, c.plainLyrics), expected)
\* two scored candidates that differ in provenance at most
AlikeButProvenance(a, b, expected) ==
  /\ a.mode = b.mode /\ a.syncMethod = b.syncMethod
  /\ Len(a.lines) = Len(b.lines)
  /\ Len(OrEmpty(a.plainLyrics)) = Len(OrEmpty(b.plainLyrics))
  /\ ScriptBonus(a, expected) = ScriptBonus(b, expected)
\* C25: of two candidates that agree on mode, syncMethod, line count, text
\* length and script bonus, the one of the higher provenance (captions, then
\* catalog, then catalog_aligned, then transcription) has the strictly higher
\* score.
ScoreOrderedByProvenance ==
  (probe.fn = "scoreLyricsCandidate" /\ probe.applied) =>
    ((AlikeButProvenance(probe.a, probe.b, probe.expectedScript)
        /\ ProvenanceRank(probe.a) > ProvenanceRank(probe.b))
       => probe.out[1] > probe.out[2])

\* a timed catalog candidate and an aligned one, six native Latin lines each, scored
ScoreOrderedByProvenanceSeen ==
  /\ probe.fn = "scoreLyricsCandidate" /\ probe.applied
  /\ probe.a.source = "catalog" /\ probe.b.source = "catalog_aligned"
  /\ probe.a.mode = "timed" /\ probe.b.mode = "timed"
  /\ probe.a.syncMethod = "native" /\ probe.b.syncMethod = "native"
  /\ probe.a.lines = SixLines(SampleText.en) /\ probe.b.lines = SixLines(SampleText.en)
  /\ probe.out[1] > probe.out[2]

\* a step in which a candidate built from the transcription was pushed
PushedFromSegments ==
  /\ pc \in {"align", "stt"} /\ pc' = "finalize"
  /\ Len(rawCandidates') > Len(rawCandidates)
SegmentOf(sg, doc) ==
  \E k \in 1..Len(doc.segments) :
    doc.segments[k].start = sg.start /\ cleanCaptionText(doc.segments[k].text) = sg.text
ReadAs(d, key, known, default) == IF HasKey(d, key) /\ d[key] \in known THEN d[key] ELSE default
ProvenanceReadAs(d, r) ==
  /\ r.source = ReadAs(d, "source", {"captions", "catalog", "catalog_aligned", "stt"}, "none")
  /\ r.mode = ReadAs(d, "mode", {"plain"}, "timed")
  /\ r.syncMethod = ReadAs(d, "syncMethod", {"native", "ai"}, "none")
\* C28: readCachedLyrics answers null for a file that is missing or is not
\* JSON and for a document without lines or of another video; of any other
\* document it reads source, mode and syncMethod, of the document and of each
\* candidate, as none, timed and none when they are missing or unknown, and a
\* candidate's score as 0 when it is missing or no number.
CacheReadTolerant ==
  (probe.fn = "readCachedLyrics" /\ probe.applied) =>
    LET d == probe.doc
        r == probe.out
        miss == \/ d.kind # "json"
                \/ ~HasKey(d, "lines")
                \/ ~HasKey(d, "videoId")
                \/ d.videoId # VideoId
        stored == IF HasKey(d, "candidates")
                  THEN SelectSeq(d.candidates, LAMBDA c : {"id", "label", "lines"} \subseteq DOMAIN c)
                  ELSE <<>>
    IN IF miss THEN r = Null
       ELSE /\ r # Null
            /\ ProvenanceReadAs(d, r)
            /\ Len(r.candidates) = Len(stored)
            /\ \A i \in 1..Len(stored) :
                 /\ ProvenanceReadAs(stored[i], r.candidates[i])
                 /\ IsFinite(r.candidates[i].score)
                 /\ (~HasKey(stored[i], "score") \/ ~IsFinite(stored[i].score))
                      => r.candidates[i].score = 0

\* a document holding one candidate of unknown provenance whose score is no
\* number was read
CacheReadTolerantSeen ==
  /\ probe.fn = "readCachedLyrics" /\ probe.applied
  /\ probe.out # Null
  /\ HasKey(probe.doc, "candidates") /\ Len(probe.doc.candidates) = 1
  /\ Len(probe.out.candidates) = 1
  /\ HasKey(probe.doc.candidates[1], "syncMethod") /\ probe.doc.candidates[1].syncMethod = "?"
  /\ HasKey(probe.doc.candidates[1], "score") /\ probe.doc.candidates[1].score = NaN
  /\ probe.out.candidates[1].score = 0
  /\ probe.out.candidates[1].syncMethod = "none"

\* the de-duplication threshold of each producer of timed lines
ProducerGap ==
  [parseLrc |-> LrcDedupGap, parseVtt |-> VttDedupGap, parseWhisperJson |-> WhisperDedupGap,
   alignPlainLyricsWithSegments |-> AlignDedupGap]
WellFormedLines(lines, gap) ==
  /\ NonDecreasing(lines)
  /\ \A i \in 1..Len(lines) : lines[i].t >= 0 /\ lines[i].text # <<>>
  /\ \A i \in 1..(Len(lines) - 1) :
       ~(lines[i].text = lines[i + 1].text /\ Abs(lines[i + 1].t - lines[i].t) <= gap)
\* C29: what parseLrc, parseVtt, parseWhisperJson and
\* alignPlainLyricsWithSegments return is ascending in time, has no negative
\* time and no empty text, and has no two neighbours of the same text within
\* the producer's threshold, in whatever order the input gives its cues.
ProducedLinesWellFormed ==
  (probe.fn \in DOMAIN ProducerGap /\ probe.applied) =>
    WellFormedLines(probe.out, ProducerGap[probe.fn])

\* the same of the three producers that sort before they de-duplicate
SortingProducersWellFormed ==
  (probe.fn \in DOMAIN ProducerGap \ {"parseVtt"} /\ probe.applied) =>
    WellFormedLines(probe.out, ProducerGap[probe.fn])

\* the text holds a bracketed group, "[" then one or more characters other
\* than "]" then "]"
HasBracketGroup(text) == ScanGroups(text, 1, <<>>, <<>>).groups # <<>>
\* ascending in time, no adjacent duplicates, every text non-empty and as
\* cleanCaptionText leaves it
RoundTripLines(lines) ==
  /\ WellFormedLines(lines, LrcDedupGap)
  /\ \A i \in 1..Len(lines) : cleanCaptionText(lines[i].text) = lines[i].text

\* What C30 says: parseLrc gives back every such sequence of timed lines that
\* serializeLrc wrote.
LrcRoundTrip ==
  (probe.fn = "parseLrc(serializeLrc)" /\ probe.applied /\ RoundTripLines(probe.lines))
    => probe.out = probe.lines

\* C30: parseLrc gives back every sequence of timed lines that serializeLrc
\* wrote, when the sequence is ascending in time, free of adjacent duplicates,
\* its texts are non-empty and normalized, and no text holds a bracketed group.
LrcRoundTripWithoutBrackets ==
  (/\ probe.fn = "parseLrc(serializeLrc)" /\ probe.applied
   /\ RoundTripLines(probe.lines)
   /\ \A i \in 1..Len(probe.lines) : ~HasBracketGroup(probe.lines[i].text))
    => probe.out = probe.lines

\* three lines, the last past the first minute and one holding brackets that
\* form no group, came back as they were written
LrcRoundTripSeen ==
  /\ probe.fn = "parseLrc(serializeLrc)" /\ probe.applied
  /\ Len(probe.lines) = MaxList
  /\ RoundTripLines(probe.lines)
  /\ probe.lines[MaxList].t > 6000
  /\ \E i \in 1..MaxList : probe.lines[i].text = <<"a", "]", "[">>
  /\ probe.out = probe.lines

\* the four families' counts of a text, Japanese being Hiragana, Katakana and Han
Families(n) ==
  [korean |-> n.hangul, japanese |-> n.hiragana + n.katakana + n.han,
   cyrillic |-> n.cyrillic, latin |-> n.latin]
FamilyOrder == <<"korean", "japanese", "cyrillic", "latin">>
Present(f) == Cardinality({k \in DOMAIN f : f[k] > 0})
Highest(f) == CHOOSE m \in {f[k] : k \in DOMAIN f} : \A k \in DOMAIN f : f[k] <= m
\* the first family of the fixed order that has the highest count
FirstHighest(f) ==
  FamilyOrder[CHOOSE i \in 1..4 :
                /\ f[FamilyOrder[i]] = Highest(f)
                /\ \A j \in 1..(i - 1) : f[FamilyOrder[j]] < Highest(f)]
MixedOrHighest(f) == IF Present(f) >= 3 THEN "mixed" ELSE FirstHighest(f)

\* What C31 says: detectScript answers unknown exactly when the text holds at
\* most one classifiable character in all, else mixed with three families
\* present, else the family with the highest count.
DetectScriptByCombinedCount ==
  (probe.fn = "detectScript" /\ probe.applied) =>
    LET f == Families(probe.counts)
    IN probe.out = IF f.korean + f.japanese + f.cyrillic + f.latin <= 1 THEN "unknown"
                   ELSE MixedOrHighest(f)

\* C31: detectScript answers unknown exactly when no family has more than one
\* character, else mixed when at least three of the four families are present,
\* else the family with the highest count, a tie going to the first of korean,
\* japanese, cyrillic, latin.
DetectScriptByHighestCount ==
  (probe.fn = "detectScript" /\ probe.applied) =>
    LET f == Families(probe.counts)
    IN probe.out = IF Highest(f) <= 1 THEN "unknown" ELSE MixedOrHighest(f)

\* a text of two families tied at two characters each was classified
DetectScriptTieSeen ==
  /\ probe.fn = "detectScript" /\ probe.applied
  /\ probe.counts.latin = 2 /\ probe.counts.han = 1 /\ probe.counts.katakana = 1
  /\ probe.counts.hangul = 0 /\ probe.counts.cyrillic = 0 /\ probe.counts.hiragana = 0
  /\ probe.out = "japanese"

\* C32: isScriptCompatible is true for expected unknown or mixed; for korean or
\* japanese it is false with any Cyrillic character and otherwise true exactly
\* when the local script or Latin has two characters; for cyrillic exactly when
\* Cyrillic has two; for latin exactly when Latin has two and the other
\* families together have at most max(2, floor(0.6 * latin)).
ScriptCompatibleByCounts ==
  (probe.fn = "isScriptCompatible" /\ probe.applied) =>
    LET f == Families(probe.counts)
        e == probe.expected
    IN probe.out <=>
         CASE e \in {"unknown", "mixed"} -> TRUE
           [] e \in {"korean", "japanese"} -> f.cyrillic = 0 /\ (f[e] >= 2 \/ f.latin >= 2)
           [] e = "cyrillic" -> f.cyrillic >= 2
           [] e = "latin" ->
                /\ f.latin >= 2
                /\ \E allowed \in 0..f.latin :
                     /\ 10 * allowed <= 6 * f.latin /\ 6 * f.latin < 10 * (allowed + 1)
                     /\ f.korean + f.japanese + f.cyrillic <= Max(2, allowed)

\* five Latin characters with three Hangul passed for latin
ScriptCompatibleSeen ==
  /\ probe.fn = "isScriptCompatible" /\ probe.applied
  /\ probe.expected = "latin"
  /\ probe.counts.latin = 5 /\ probe.counts.hangul = 3
  /\ probe.counts.hiragana + probe.counts.katakana + probe.counts.han = 0
  /\ probe.counts.cyrillic = 0
  /\ probe.out

\* five Latin characters with four Hangul did not
ScriptIncompatibleSeen ==
  /\ probe.fn = "isScriptCompatible" /\ probe.applied
  /\ probe.expected = "latin"
  /\ probe.counts.latin = 5 /\ probe.counts.hangul = 4
  /\ probe.counts.hiragana + probe.counts.katakana + probe.counts.han = 0
  /\ probe.counts.cyrillic = 0
  /\ ~probe.out

\* the hits fetchCatalogLyricsCandidates collected from the answers, each with
\* its lyric text and composite key
CollectedRows(file, responses) ==
  LET meta == readMeta(file)
      collected == CollectAll(extractArtistTrackCandidates(meta.title, meta.channelTitle),
                              responses)
  IN Arr([i \in 1..Len(collected) |-> CatalogRow(collected[i])])
KeyOf(c) == CatalogRow(c).key
Survivors(out, key) == {i \in 1..Len(out) : KeyOf(out[i]) = key}
HighestOfKey(out, rows) ==
  \A i \in 1..Len(out) : \A k \in 1..Len(rows) :
    rows[k].key = KeyOf(out[i]) => rows[k].c.score <= out[i].score

NonIncreasingScore(out) == \A i \in 1..(Len(out) - 1) : out[i].score >= out[i + 1].score
LanguagePriority(f) ==
  CASE f.lang = "en" -> 1 [] f.lang = "ko" -> 2 [] f.lang = "ja" -> 3 [] f.lang = "fr" -> 4
    [] OTHER -> 5
\* f comes before g: manual before auto-generated, then the language priority,
\* then the file name
CaptionBefore(f, g) ==
  \/ ~f.auto /\ g.auto
  \/ f.auto = g.auto /\ LanguagePriority(f) < LanguagePriority(g)
  \/ f.auto = g.auto /\ LanguagePriority(f) = LanguagePriority(g) /\ f.ord < g.ord
\* C35: pickBestSubtitleFile returns the first file, under manual before
\* auto-generated, then language priority, then file name, among the files
\* whose language is compatible with the expected script, or among all files
\* when none is; no auto-generated file of that pool is returned while the pool
\* holds a manual one.
BestSubtitleIsFirst ==
  (probe.fn = "pickBestSubtitleFile" /\ probe.applied /\ probe.files # {}) =>
    LET compatible == {f \in probe.files : isSubtitleLangCompatible(f, probe.expectedScript)}
        pool == IF compatible = {} THEN probe.files ELSE compatible
    IN /\ probe.out \in pool
       /\ \A g \in pool \ {probe.out} : CaptionBefore(probe.out, g)
       /\ (\E g \in pool : ~g.auto) => ~probe.out.auto

\* a manual file of a low-priority language was taken although an
\* auto-generated English file was there
BestSubtitleIsFirstSeen ==
  /\ probe.fn = "pickBestSubtitleFile" /\ probe.applied
  /\ probe.expectedScript = "latin"
  /\ \E g \in probe.files : g.auto /\ g.lang = "en"
  /\ \E g \in probe.files : g.lang = "ru"
  /\ probe.out.lang = "de" /\ ~probe.out.auto

\* C36: whenever a result has been persisted, reading lyrics.json gives a value
\* equal to it in every field, candidates and their scores included.
CacheRoundTrip ==
  persisted # Null => readCachedLyrics(cacheDoc, VideoId) = persisted

\* a persisted result with a timed candidate that has no plain text and a plain
\* candidate that has no lines
CacheRoundTripSeen ==
  /\ Fresh /\ persisted = result
  /\ \E c \in CandidateSet(persisted) : c.mode = "timed" /\ c.plainLyrics = UNDEF
  /\ \E c \in CandidateSet(persisted) : c.mode = "plain" /\ c.lines = <<>>
  /\ \E c \in CandidateSet(persisted) : c.score > 0

\* C37: a call that follows a call which ran the pipeline and persisted its
\* result, the metadata giving the same expected script, returns the cached
\* result and runs no stage.
PersistedAcceptedNext ==
  [][(/\ CallStep
      /\ Fresh /\ calls.cacheWrite = 1
      /\ ExpectedNow = expectedScript
      /\ UNCHANGED metaFile)
     => (hit' /\ pc' = "done" /\ result' = persisted)]_vars

\* C38: once the "none" result is the persisted one, the cache document passes
\* the cache check for every expected script, and every call returns the
\* "none" result from it, runs no stage and writes nothing.
NoneResultSticks ==
  [][(CallStep /\ persisted = NoneResult)
     => (/\ \A e \in ScriptTypes : cacheUsable(readCachedLyrics(cacheDoc, VideoId), e)
         /\ hit' /\ pc' = "done" /\ outcome' = "returned"
         /\ result' = NoneResult
         /\ calls' = NoCalls
         /\ UNCHANGED <<cacheDoc, persisted, captionFiles, audioExists, whisperOut>>)]_vars

\* the "none" result came from the cache on a call whose metadata, stored after
\* it was persisted, expects a script that empty text does not have
NoneResultSticksSeen ==
  /\ hit /\ callNo >= 2
  /\ result = NoneResult /\ persisted = NoneResult
  /\ expectedScript \in {"korean", "latin"}
  /\ calls = NoCalls

ResultIds == {result.candidates[k].id : k \in 1..Len(result.candidates)}
\* C39: when a call has aligned a plain catalog candidate and the two have the
\* same fingerprint, so that only one of them can be in the result, the plain
\* one is not the one in the result.
AlignedNotDroppedForPlain ==
  (Fresh /\ pc = "done") =>
    \A i \in 1..Len(rawCandidates) :
      LET c == rawCandidates[i]
      IN (c.source = "catalog" /\ c.mode = "plain") =>
           \A a \in AlignedOf(c, rawCandidates) :
             Fingerprint(a) = Fingerprint(c) => c.id \notin ResultIds

NonTerminalStatus == {"pending", "downloading", "separating"}
StatusMove(a, b) ==
  \/ a = b
  \/ <<a, b>> \in {<<"pending", "downloading">>, <<"downloading", "separating">>,
                   <<"separating", "complete">>}
  \/ a \in NonTerminalStatus /\ b = "error"
\* C40: the status of a prepare job moves only pending -> downloading ->
\* separating -> complete, or from one of the first three to error; complete
\* and error are never left and no job disappears; the answer of the status
\* endpoint has the result URLs exactly if the status is complete, and its
\* progress is 0 if the status is error.
PrepareJobLifecycle ==
  /\ [](\A job \in DOMAIN jobs :
          LET answer == StatusAnswer(job)
          IN /\ answer.status = jobs[job].status
             /\ HasKey(answer, "result") <=> jobs[job].status = "complete"
             /\ answer.status = "error" => answer.progress = 0)
  /\ [][/\ \A job \in DOMAIN jobs :
            job \in DOMAIN jobs' /\ StatusMove(jobs[job].status, jobs'[job].status)
        /\ \A job \in DOMAIN jobs' \ DOMAIN jobs :
            StatusMove("pending", jobs'[job].status) /\ jobs'[job].status # "error"]_vars
\* the client has the answer for a complete job, URLs included
PrepareJobCompleteSeen ==
  \E job \in DOMAIN jobs :
    /\ jobs[job].status = "complete"
    /\ ui.jobStatus = StatusAnswer(job)
    /\ HasKey(ui.jobStatus, "result")
\* a job has failed, its answer has progress 0 and no URLs, and the client,
\* having had that answer, is back at the list
PrepareJobErrorSeen ==
  \E job \in DOMAIN jobs :
    /\ jobs[job].status = "error"
    /\ StatusAnswer(job).progress = 0 /\ ~HasKey(StatusAnswer(job), "result")
    /\ ui.phase = "browse" /\ ui.jobStatus = Null /\ ~net.polling

====
